---- MODULE Spec2Model ----
(***************************************************************************)
(* Verification model of duck-read-cache-fs (cache_httpfs): the LRU        *)
(* primitives, the get-or-create creation token, the on-disk and in-memory *)
(* cache readers and the file-handle cache of the cache filesystem.        *)
(*                                                                         *)
(* The module holds several specifications over one set of variables; each *)
(* specification drives one subsystem and leaves the others idle:          *)
(*   SpecLru    - the four LRU caches, single operations under the mutex   *)
(*   SpecGoc    - GetOrCreate of the thread-safe shared/copiable caches    *)
(*   SpecReader - ReadAndCache of the on-disk and in-memory readers        *)
(*   SpecFh     - the facade's file-handle cache                           *)
(***************************************************************************)
EXTENDS Integers, Sequences, FiniteSets, TLC

\* ------------------------------------------------------------------ bounds
MaxTime == 2
MaxListLen == 3
MaxFactoryCalls == 2

Keys == {"k1", "k2"}
Threads == {"t1", "t2"}
\* nullptr / Val{} : what Get returns for an absent key.
Null == 0
\* Values a direct Put stores (distinct from every factory-made value).
PutVal == MaxFactoryCalls + 1
\* "shared" stands for SharedLruCache and CopiableValueLruCache, whose code is the
\* same text up to the value type.
Kinds == {"shared", "exclusive", "multi"}
Capacities == {0, 1, 2}
Timeouts == {0, 1}
GocCapacities == {1}

VARIABLES
    now,                \* steady clock, milliseconds
    cache_kind,         \* which LRU variant this behaviour exercises
    cache,              \* the LRU cache object (internal_cache)
    ongoing_creation,   \* ThreadSafe*LruCache::ongoing_creation
    goc,                \* per thread: position inside GetOrCreate
    factory_calls,      \* per key: how often the factory ran
    removed,            \* per key: an entry of it was evicted, expired, deleted or cleared
    direct_put,         \* per key: a plain Put stored it
    last_ret,           \* the latest lookup result; age is the age the returned value
                        \* had when the lookup call began
    evictions,          \* TRUE once a Put evicted an entry for capacity
    crashed,            \* the process aborted (failed assertion / invalid dereference)
    reader_kind,        \* "disk" or "mem": the active cache reader
    block_size,         \* g_cache_block_size
    files,              \* the local filesystem: file name -> content and staleness
    reads,              \* per client: the logical read in progress and its sub-requests
    inner_log,          \* every (offset, length) the inner filesystem was asked to read
    reads_started,      \* number of logical reads begun
    fh_held,            \* per user: the facade handle it holds (inner handle, path)
    fh_closed,          \* inner handles that were closed
    fh_opened,          \* number of inner handles the inner filesystem opened
    fh_enabled,         \* file_handle_cache != nullptr
    fh_reclosed,        \* inner handles that were closed more than once
    fh_last_drop,       \* per path: the handle dropped last, no open of the path since
    glob_enabled,       \* glob_cache != nullptr
    uncached_globs,     \* inner glob calls that went past the glob cache
    pool,               \* the ThreadPool io_threads of one ReadAndCache call and its jobs
    config,             \* the global configuration (g_cache_type, g_cache_block_size, ...)
    manager,            \* the process-wide CacheReaderManager
    facades,            \* per CacheFileSystem: its profile collector and its OpenFile in progress
    cache_dir,          \* EvictStaleCacheFiles: the wall clock and the cache directory,
                        \* file -> last modification time
    scan,               \* EvictStaleCacheFiles: the directory scan in progress
    config_seen,        \* what the latest configuration load or reset was like
    plan,               \* the planning loop of one ReadAndCache call and its chunks
    profile             \* a TempProfileCollector and the operations that report to it

lruVars == <<now, cache_kind, cache, ongoing_creation, goc, factory_calls,
             removed, direct_put, last_ret, evictions, crashed>>

readerVars == <<reader_kind, block_size, files, reads, inner_log, reads_started>>

fhVars == <<fh_held, fh_closed, fh_opened, fh_enabled, fh_reclosed, fh_last_drop>>

globVars == <<glob_enabled, uncached_globs>>

poolVars == <<pool>>

configVars == <<config, manager, facades, config_seen>>

evictVars == <<cache_dir, scan>>

planVars == <<plan>>

profileVars == <<profile>>

extVars == <<pool, config, manager, facades, cache_dir, scan, config_seen, plan, profile>>

vars == <<now, cache_kind, cache, ongoing_creation, goc, factory_calls,
          removed, direct_put, last_ret, evictions, crashed,
          reader_kind, block_size, files, reads, inner_log, reads_started,
          fh_held, fh_closed, fh_opened, fh_enabled, fh_reclosed, fh_last_drop,
          glob_enabled, uncached_globs,
          pool, config, manager, facades, cache_dir, scan, config_seen, plan, profile>>

\* ------------------------------------------------------- std::list<Key>
\* The LRU list is a sequence of keys, front first; an entry's lru_iterator is
\* the position of its node, so every list edit re-indexes the iterators the
\* way node pointers stay valid in a std::list.
MapIters(entry_map, move) ==
    [k \in DOMAIN entry_map |->
        IF Len(entry_map[k]) = 0 THEN <<>>
        ELSE [i \in 1..Len(entry_map[k]) |->
                [entry_map[k][i] EXCEPT !.lru_iterator = move[@]]]]

ListEmplaceFront(c, key) ==
    [c EXCEPT !.lru_list = <<key>> \o @,
              !.entry_map = MapIters(@, [i \in 1..Len(c.lru_list) |-> i + 1])]

ListErase(c, p) ==
    [c EXCEPT !.lru_list = SubSeq(@, 1, p - 1) \o SubSeq(@, p + 1, Len(@)),
              !.entry_map = MapIters(@, [i \in 1..Len(c.lru_list) |->
                                         IF i > p THEN i - 1 ELSE i])]

ListPopBack(c) == ListErase(c, Len(c.lru_list))

ListSpliceFront(c, p) ==
    [c EXCEPT !.lru_list = <<@[p]>> \o SubSeq(@, 1, p - 1) \o SubSeq(@, p + 1, Len(@)),
              !.entry_map = MapIters(@, [i \in 1..Len(c.lru_list) |->
                                         IF i = p THEN 1
                                         ELSE IF i < p THEN i + 1 ELSE i])]

\* ------------------------------------------------------------ cache object
NewCache(max_entries_p, timeout_millisec_p) ==
    [lru_list |-> <<>>,
     entry_map |-> [k \in Keys |-> <<>>],
     cur_entries_num |-> 0,
     max_entries |-> max_entries_p,
     timeout_millisec |-> timeout_millisec_p]

NewEntry(value, ts) == [value |-> value, timestamp |-> ts, lru_iterator |-> 1]

\* now - entry.timestamp > timeout_millisec
Expired(c, entry, t) == c.timeout_millisec > 0 /\ t - entry.timestamp > c.timeout_millisec

Found(c, key) == Len(c.entry_map[key]) > 0

\* Number of values the cache stores.
RECURSIVE SumLen(_, _)
SumLen(entry_map, ks) ==
    IF ks = {} THEN 0
    ELSE LET k == CHOOSE x \in ks : TRUE
         IN Len(entry_map[k]) + SumLen(entry_map, ks \ {k})

StoredEntries(c) == SumLen(c.entry_map, DOMAIN c.entry_map)

\* ---------------------------------- SharedLruCache / CopiableValueLruCache
\* Put: a new list node is always added; the map slot of an equal key is
\* overwritten in place; the back node is dropped when the list is too long.
SharedPutNoEvict(c, key, value, t) ==
    LET c1 == ListEmplaceFront(c, key)
    IN [c1 EXCEPT !.entry_map[key] = <<NewEntry(value, t)>>]

\* SharedNeedsEvict that lets the list grow one node past max_entries.
SharedNeedsEvictLate(c) == c.max_entries > 0 /\ Len(c.lru_list) > c.max_entries + 1

SharedNeedsEvict(c) == c.max_entries > 0 /\ Len(c.lru_list) > c.max_entries

SharedPut(c, key, value, t) ==
    LET c2 == SharedPutNoEvict(c, key, value, t)
    IN IF SharedNeedsEvict(c2)
       THEN LET stale_key == c2.lru_list[Len(c2.lru_list)]
            IN ListPopBack([c2 EXCEPT !.entry_map[stale_key] = <<>>])
       ELSE c2

SharedDeleteImpl(c, key) ==
    LET p == c.entry_map[key][1].lru_iterator
        c1 == ListErase(c, p)
    IN [c1 EXCEPT !.entry_map[key] = <<>>]

SharedDelete(c, key) == IF Found(c, key) THEN SharedDeleteImpl(c, key) ELSE c

\* Get returns [cache, value, inserted]; value = Null when absent or expired.
SharedGet(c, key, t) ==
    IF ~Found(c, key) THEN [cache |-> c, value |-> Null, inserted |-> 0]
    ELSE LET e == c.entry_map[key][1]
         IN IF Expired(c, e, t)
            THEN [cache |-> SharedDeleteImpl(c, key), value |-> Null, inserted |-> 0]
            ELSE [cache |-> ListSpliceFront(c, e.lru_iterator),
                  value |-> e.value, inserted |-> e.timestamp]

SharedClear(c) ==
    [c EXCEPT !.lru_list = <<>>, !.entry_map = [k \in DOMAIN c.entry_map |-> <<>>]]

\* ------------------------------------------------------- ExclusiveLruCache
\* Put returns [cache, evicted, ub]. ub: the back node of the list has no map
\* entry, so D_ASSERT(iter != entry_map.end()) fails (debug build) or end() is
\* dereferenced (release build); either way the process dies.
ExclusivePut(c, key, value, t) ==
    LET c2 == SharedPutNoEvict(c, key, value, t)
    IN IF SharedNeedsEvict(c2)
       THEN LET stale_key == c2.lru_list[Len(c2.lru_list)]
            IN IF ~Found(c2, stale_key)
               THEN [cache |-> c, evicted |-> Null, ub |-> TRUE]
               ELSE [cache |-> ListPopBack([c2 EXCEPT !.entry_map[stale_key] = <<>>]),
                     evicted |-> c2.entry_map[stale_key][1].value, ub |-> FALSE]
       ELSE [cache |-> c2, evicted |-> Null, ub |-> FALSE]

\* GetAndPop returns [cache, value, inserted].
ExclusiveGetAndPop(c, key, t) ==
    IF ~Found(c, key) THEN [cache |-> c, value |-> Null, inserted |-> 0]
    ELSE LET e == c.entry_map[key][1]
         IN IF Expired(c, e, t)
            THEN [cache |-> SharedDeleteImpl(c, key), value |-> Null, inserted |-> 0]
            ELSE [cache |-> SharedDeleteImpl(c, key), value |-> e.value,
                  inserted |-> e.timestamp]

\* --------------------------------------------------- ExclusiveMultiLruCache
\* A DeleteFirstEntry that removes the newest value of the key instead.
DeleteLastEntry(c, key) ==
    LET n == Len(c.entry_map[key])
        c1 == ListErase(c, c.entry_map[key][n].lru_iterator)
    IN [c1 EXCEPT !.entry_map[key] = SubSeq(@, 1, n - 1), !.cur_entries_num = @ - 1]

\* Removes the oldest value of a key, its list node and, with the last value, the key.
DeleteFirstEntry(c, key) ==
    LET c1 == ListErase(c, c.entry_map[key][1].lru_iterator)
    IN [c1 EXCEPT !.entry_map[key] = Tail(@), !.cur_entries_num = @ - 1]

MultiNeedsEvict(c) == c.max_entries > 0 /\ c.cur_entries_num > c.max_entries

MultiPutNoEvict(c, key, value, t) ==
    LET c1 == ListEmplaceFront(c, key)
    IN [c1 EXCEPT !.entry_map[key] = Append(@, NewEntry(value, t)),
                  !.cur_entries_num = @ + 1]

\* Put returns [cache, evicted].
MultiPut(c, key, value, t) ==
    LET c2 == MultiPutNoEvict(c, key, value, t)
    IN IF MultiNeedsEvict(c2)
       THEN LET stale_key == c2.lru_list[Len(c2.lru_list)]
            IN [cache |-> DeleteFirstEntry(c2, stale_key),
                evicted |-> c2.entry_map[stale_key][1].value]
       ELSE [cache |-> c2, evicted |-> Null]

\* The staleness loop of GetAndPop: `while (cur_entries_num > 0)` looks at
\* entries.front(). size is cur_entries_size. ub: the deque was emptied (and
\* destroyed with its map slot) while cur_entries_num is still positive, so
\* front() reads a destroyed deque.
RECURSIVE MultiSweep(_, _, _, _, _)
MultiSweep(c, key, t, evicted, size) ==
    IF c.cur_entries_num > 0
    THEN IF size = 0
         THEN [cache |-> c, evicted |-> evicted, size |-> size, ub |-> TRUE]
         ELSE IF Expired(c, c.entry_map[key][1], t)
              THEN MultiSweep(DeleteFirstEntry(c, key), key, t,
                              Append(evicted, c.entry_map[key][1].value), size - 1)
              ELSE [cache |-> c, evicted |-> evicted, size |-> size, ub |-> FALSE]
    ELSE [cache |-> c, evicted |-> evicted, size |-> size, ub |-> FALSE]

\* A GetAndPop that hands out the oldest value and leaves it in the cache.
MultiGetAndPopKeeps(c, key, t) ==
    IF ~Found(c, key)
    THEN [cache |-> c, evicted_items |-> <<>>, target_item |-> Null, inserted |-> 0,
          ub |-> FALSE]
    ELSE [cache |-> c, evicted_items |-> <<>>,
          target_item |-> c.entry_map[key][1].value,
          inserted |-> c.entry_map[key][1].timestamp, ub |-> FALSE]

\* GetAndPop returns [cache, evicted_items, target_item, inserted, ub].
MultiGetAndPop(c, key, t) ==
    IF ~Found(c, key)
    THEN [cache |-> c, evicted_items |-> <<>>, target_item |-> Null, inserted |-> 0,
          ub |-> FALSE]
    ELSE LET sw == IF c.timeout_millisec > 0
                   THEN MultiSweep(c, key, t, <<>>, Len(c.entry_map[key]))
                   ELSE [cache |-> c, evicted |-> <<>>, size |-> Len(c.entry_map[key]),
                         ub |-> FALSE]
         IN IF sw.ub
            THEN [cache |-> c, evicted_items |-> <<>>, target_item |-> Null,
                  inserted |-> 0, ub |-> TRUE]
            ELSE IF c.timeout_millisec > 0 /\ sw.size = 0
            THEN [cache |-> sw.cache, evicted_items |-> sw.evicted, target_item |-> Null,
                  inserted |-> 0, ub |-> FALSE]
            ELSE [cache |-> DeleteFirstEntry(sw.cache, key),
                  evicted_items |-> sw.evicted,
                  target_item |-> sw.cache.entry_map[key][1].value,
                  inserted |-> sw.cache.entry_map[key][1].timestamp, ub |-> FALSE]

\* ClearAndGetValues returns [cache, values]; cur_entries_num is left as it was.
AllValues(c) ==
    UNION {{c.entry_map[k][i].value : i \in 1..Len(c.entry_map[k])} :
              k \in DOMAIN c.entry_map}

MultiClearAndGetValues(c) == [cache |-> SharedClear(c), values |-> AllValues(c)]

\* Verify: the values of the map add up to cur_entries_num and the list is as
\* long. A key with no value has no map slot here, so the test for an empty
\* deque has nothing to find.
Verify(c) ==
    /\ StoredEntries(c) = c.cur_entries_num
    /\ Len(c.lru_list) = c.cur_entries_num

\* ------------------------------------------------------------------ state
\* No CreationToken registered for a key.
NoToken == [present |-> FALSE, val |-> Null, has_value |-> FALSE, count |-> 0, inserted |-> 0]

\* A thread outside GetOrCreate; ret_* is what its latest call returned and how
\* ("hit": from the cache, "waited": from another caller's token, "created": own factory).
IdleCall == [pc |-> "idle", key |-> "k1", val |-> Null,
             ret_how |-> "none", ret_key |-> "k1", ret_val |-> Null]

\* The cache readers and the file-handle cache before any use.
ReaderIdle ==
    /\ reader_kind = "none"
    /\ block_size = 1
    /\ files = <<>>
    /\ reads = <<>>
    /\ inner_log = {}
    /\ reads_started = 0

FhIdle ==
    /\ fh_held = <<>>
    /\ fh_closed = {}
    /\ fh_opened = 0
    /\ fh_enabled = FALSE
    /\ fh_reclosed = {}
    /\ fh_last_drop = <<>>

GlobIdle ==
    /\ glob_enabled = FALSE
    /\ uncached_globs = 0

\* include/cache_filesystem_config.hpp: the recognised names and the defaults.
NOOP_CACHE_TYPE == "noop"
ON_DISK_CACHE_TYPE == "on_disk"
IN_MEM_CACHE_TYPE == "in_mem"
ALL_CACHE_TYPES == {NOOP_CACHE_TYPE, ON_DISK_CACHE_TYPE, IN_MEM_CACHE_TYPE}
NOOP_PROFILE_TYPE == "noop"
TEMP_PROFILE_TYPE == "temp"
PERSISTENT_PROFILE_TYPE == "duckdb"
ALL_PROFILE_TYPES == {NOOP_PROFILE_TYPE, TEMP_PROFILE_TYPE, PERSISTENT_PROFILE_TYPE}
DEFAULT_CACHE_BLOCK_SIZE == 65536
DEFAULT_MAX_SUBREQUEST_COUNT == 0

\* The global configuration as the header initialises it. g_ignore_sigpipe
\* starts as DEFAULT_IGNORE_SIGPIPE.
DefaultConfig ==
    [g_cache_type |-> ON_DISK_CACHE_TYPE,
     g_profile_type |-> NOOP_PROFILE_TYPE,
     g_cache_block_size |-> DEFAULT_CACHE_BLOCK_SIZE,
     g_max_subrequest_count |-> DEFAULT_MAX_SUBREQUEST_COUNT,
     g_ignore_sigpipe |-> FALSE]

\* No ThreadPool exists.
NoPool == [pc |-> "none", thread_num |-> 0, max_subrequest_count |-> 0,
           io_request_count |-> 0, pushed |-> 0, idle_num |-> 0, stopped |-> FALSE,
           jobs |-> <<>>, workers |-> <<>>, job_state |-> <<>>]

\* The CacheReaderManager singleton before any SetCacheReader: the three
\* unique_ptr members and internal_cache_reader are null. A reader instance is
\* named by the ordinal of its creation among the readers of its type (0: null).
\* profile_collector is the raw pointer each reader keeps: null, the facade
\* whose live collector it points to, or "dangling" once that collector was
\* destroyed; dereferenced is what the last dereference of such a pointer met.
NoReaders ==
    [readers |-> [t \in ALL_CACHE_TYPES |-> 0],
     created |-> [t \in ALL_CACHE_TYPES |-> 0],
     internal_cache_reader |-> [type |-> "null", instance |-> 0],
     reader_collector |-> "null",
     profile_collector |-> [t \in ALL_CACHE_TYPES |-> "null"],
     dereferenced |-> "none"]

\* An empty cache directory at time 0 of the wall clock (seconds).
NoDir == [clock |-> 0, mtime |-> <<>>]

\* No directory scan of EvictStaleCacheFiles is running.
NoScan == [pc |-> "idle", now |-> 0, todo |-> {}]

\* No configuration load or reset has happened.
NothingSeen == "none"

\* enum class IoOperation
IoOperations == {"kRead", "kOpen", "kGlob"}

\* A TempProfileCollector after construction: an empty operation_events map
\* per operation and empty histograms (recorded counts their samples);
\* generated counts the ids GenerateOperId has made and calls holds, per
\* caller, the operation it is timing.
NoProfile ==
    [operation_events |-> [io_oper \in IoOperations |-> {}],
     recorded |-> [io_oper \in IoOperations |-> 0],
     generated |-> 0,
     calls |-> <<>>]

\* No ReadAndCache call is planning.
NoPlan == [pc |-> "idle", block_size |-> 1, file_size |-> 0, location |-> 0,
           requested_bytes_to_read |-> 0, aligned_start_offset |-> 0,
           aligned_last_chunk_offset |-> 0, io_start_offset |-> 0, addr_to_write |-> 0,
           already_read_bytes |-> 0, requested_start_offset |-> 0, chunks |-> <<>>]

ExtIdle ==
    /\ plan = NoPlan
    /\ profile = NoProfile
    /\ config_seen = NothingSeen
    /\ pool = NoPool
    /\ config = DefaultConfig
    /\ manager = NoReaders
    /\ facades = <<>>
    /\ cache_dir = NoDir
    /\ scan = NoScan

LruInit ==
    /\ now = 0
    /\ cache_kind \in Kinds
    /\ \E m \in Capacities, to \in Timeouts : cache = NewCache(m, to)
    /\ ongoing_creation = [k \in Keys |-> NoToken]
    /\ goc = [t \in Threads |-> IdleCall]
    /\ factory_calls = [k \in Keys |-> 0]
    /\ removed = [k \in Keys |-> FALSE]
    /\ direct_put = [k \in Keys |-> FALSE]
    /\ last_ret = [value |-> Null, age |-> 0]
    /\ evictions = FALSE
    /\ crashed = FALSE
    /\ ReaderIdle
    /\ FhIdle
    /\ GlobIdle
    /\ ExtIdle

IsSharedKind == cache_kind = "shared"

\* Keys whose entry a cache transition dropped.
Dropped(c, c2) == {k \in Keys : Len(c2.entry_map[k]) < Len(c.entry_map[k])}

MarkRemoved(c, c2) == [k \in Keys |-> removed[k] \/ k \in Dropped(c, c2)]

Tick ==
    /\ ~crashed
    /\ now < MaxTime
    /\ now' = now + 1
    /\ UNCHANGED <<readerVars, extVars, fhVars, globVars>>
    /\ UNCHANGED <<cache_kind, cache, ongoing_creation, goc, factory_calls,
                   removed, direct_put, last_ret, evictions, crashed>>

\* ThreadSafeSharedLruCache::Put / ThreadSafeCopiableValLruCache::Put
LruPut(key) ==
    /\ ~crashed
    /\ IsSharedKind
    /\ Len(cache.lru_list) < MaxListLen
    /\ LET c2 == SharedPut(cache, key, PutVal, now)
       IN /\ cache' = c2
          /\ evictions' = (evictions \/ SharedNeedsEvict(SharedPutNoEvict(cache, key, PutVal, now)))
          /\ removed' = [k \in Keys |-> removed[k] \/ (k # key /\ k \in Dropped(cache, c2))
                                         \/ (k = key /\ Len(c2.entry_map[k]) = 0)]
    /\ direct_put' = [direct_put EXCEPT ![key] = TRUE]
    /\ UNCHANGED <<readerVars, extVars, fhVars, globVars>>
    /\ UNCHANGED <<now, cache_kind, ongoing_creation, goc, factory_calls,
                   last_ret, crashed>>

\* ThreadSafeSharedLruCache::Get
LruGet(key) ==
    /\ ~crashed
    /\ IsSharedKind
    /\ LET r == SharedGet(cache, key, now)
       IN /\ cache' = r.cache
          /\ removed' = MarkRemoved(cache, r.cache)
          /\ last_ret' = [value |-> r.value, age |-> IF r.value = Null THEN 0 ELSE now - r.inserted]
    /\ UNCHANGED <<readerVars, extVars, fhVars, globVars>>
    /\ UNCHANGED <<now, cache_kind, ongoing_creation, goc, factory_calls,
                   direct_put, evictions, crashed>>

\* ThreadSafeSharedLruCache::Delete
LruDelete(key) ==
    /\ ~crashed
    /\ IsSharedKind
    /\ Found(cache, key)
    /\ cache' = SharedDelete(cache, key)
    /\ removed' = [removed EXCEPT ![key] = TRUE]
    /\ UNCHANGED <<readerVars, extVars, fhVars, globVars>>
    /\ UNCHANGED <<now, cache_kind, ongoing_creation, goc, factory_calls,
                   direct_put, last_ret, evictions, crashed>>

\* ThreadSafeSharedLruCache::Clear
LruClear ==
    /\ ~crashed
    /\ IsSharedKind
    /\ cache.lru_list # <<>>
    /\ cache' = SharedClear(cache)
    /\ removed' = MarkRemoved(cache, cache')
    /\ UNCHANGED <<readerVars, extVars, fhVars, globVars>>
    /\ UNCHANGED <<now, cache_kind, ongoing_creation, goc, factory_calls,
                   direct_put, last_ret, evictions, crashed>>

\* -------------------------------------------- ThreadSafe*LruCache::GetOrCreate
PutRemoved(c2, key, c) ==
    [k \in Keys |-> removed[k] \/ (k # key /\ k \in Dropped(c, c2))
                              \/ (k = key /\ ~Found(c2, k))]

Returned(t, key, value, how) ==
    [IdleCall EXCEPT !.ret_how = how, !.ret_key = key, !.ret_val = value]

\* The wait predicate of the creation token.
TokenReady(tok) == tok.val # Null

\* Dropping one reference of the token; the last one erases it from ongoing_creation.
TokenRelease(tok) == IF tok.count = 1 THEN NoToken ELSE [tok EXCEPT !.count = @ - 1]

\* GocLookup without the ongoing_creation lookup: every miss starts a creation.
GocLookupNoJoin(t, key) ==
    LET r == SharedGet(cache, key, now)
    IN /\ cache' = r.cache
       /\ removed' = MarkRemoved(cache, r.cache)
       /\ IF r.value # Null
          THEN /\ goc' = [goc EXCEPT ![t] = Returned(t, key, r.value, "hit")]
               /\ last_ret' = [value |-> r.value, age |-> now - r.inserted]
               /\ UNCHANGED ongoing_creation
          ELSE /\ factory_calls[key] < MaxFactoryCalls
               /\ goc' = [goc EXCEPT ![t].pc = "factory", ![t].key = key]
               /\ ongoing_creation' = [ongoing_creation EXCEPT
                                          ![key] = [NoToken EXCEPT !.present = TRUE, !.count = 1]]
               /\ UNCHANGED last_ret

\* First critical section: lookup, then join the ongoing creation or start one.
GocLookup(t, key) ==
    LET r == SharedGet(cache, key, now)
        tok == ongoing_creation[key]
    IN /\ cache' = r.cache
       /\ removed' = MarkRemoved(cache, r.cache)
       /\ IF r.value # Null
          THEN /\ goc' = [goc EXCEPT ![t] = Returned(t, key, r.value, "hit")]
               /\ last_ret' = [value |-> r.value, age |-> now - r.inserted]
               /\ UNCHANGED ongoing_creation
          ELSE IF tok.present
          THEN IF TokenReady(tok)
               THEN /\ goc' = [goc EXCEPT ![t] = Returned(t, key, tok.val, "waited")]
                    /\ last_ret' = [value |-> tok.val, age |-> now - tok.inserted]
                    /\ UNCHANGED ongoing_creation
               ELSE /\ goc' = [goc EXCEPT ![t].pc = "waiting", ![t].key = key]
                    /\ ongoing_creation' = [ongoing_creation EXCEPT ![key].count = @ + 1]
                    /\ UNCHANGED last_ret
          ELSE /\ factory_calls[key] < MaxFactoryCalls
               /\ goc' = [goc EXCEPT ![t].pc = "factory", ![t].key = key]
               /\ ongoing_creation' = [ongoing_creation EXCEPT
                                          ![key] = [NoToken EXCEPT !.present = TRUE, !.count = 1]]
               /\ UNCHANGED last_ret

GocStart(t, key) ==
    /\ ~crashed
    /\ IsSharedKind
    /\ goc[t].pc = "idle"
    /\ GocLookup(t, key)
    /\ UNCHANGED <<readerVars, extVars, fhVars, globVars>>
    /\ UNCHANGED <<now, cache_kind, factory_calls, direct_put, evictions, crashed>>

\* The factory runs outside the lock; each invocation makes a new value.
GocFactory(t) ==
    /\ ~crashed
    /\ goc[t].pc = "factory"
    /\ factory_calls' = [factory_calls EXCEPT ![goc[t].key] = @ + 1]
    /\ goc' = [goc EXCEPT ![t].pc = "publish", ![t].val = factory_calls[goc[t].key] + 1]
    /\ UNCHANGED <<readerVars, extVars, fhVars, globVars>>
    /\ UNCHANGED <<now, cache_kind, cache, ongoing_creation, removed, direct_put,
                   last_ret, evictions, crashed>>

\* Second critical section of the producer: Put, fill the token, notify, release.
GocPublish(t) ==
    /\ ~crashed
    /\ goc[t].pc = "publish"
    /\ Len(cache.lru_list) < MaxListLen
    /\ LET key == goc[t].key
           val == goc[t].val
           c2 == SharedPut(cache, key, val, now)
           tok == [ongoing_creation[key] EXCEPT !.val = val, !.has_value = TRUE,
                                                !.inserted = now]
       IN /\ cache' = c2
          /\ removed' = PutRemoved(c2, key, cache)
          /\ evictions' = (evictions \/ SharedNeedsEvict(SharedPutNoEvict(cache, key, val, now)))
          /\ ongoing_creation' = [ongoing_creation EXCEPT ![key] = TokenRelease(tok)]
          /\ goc' = [goc EXCEPT ![t] = Returned(t, key, val, "created")]
          /\ last_ret' = [value |-> val, age |-> 0]
    /\ UNCHANGED <<readerVars, extVars, fhVars, globVars>>
    /\ UNCHANGED <<now, cache_kind, factory_calls, direct_put, crashed>>

\* A waiter reacquires the lock once the token holds the value. The value was
\* stored after this call began, so its age at the start of the call is 0.
GocWake(t) ==
    /\ ~crashed
    /\ goc[t].pc = "waiting"
    /\ LET key == goc[t].key
           tok == ongoing_creation[key]
       IN /\ TokenReady(tok)
          /\ ongoing_creation' = [ongoing_creation EXCEPT ![key] = TokenRelease(tok)]
          /\ goc' = [goc EXCEPT ![t] = Returned(t, key, tok.val, "waited")]
          /\ last_ret' = [value |-> tok.val, age |-> 0]
    /\ UNCHANGED <<readerVars, extVars, fhVars, globVars>>
    /\ UNCHANGED <<now, cache_kind, cache, factory_calls, removed, direct_put,
                   evictions, crashed>>

GocInit ==
    /\ now = 0
    /\ cache_kind = "shared"
    /\ \E m \in GocCapacities, to \in Timeouts : cache = NewCache(m, to)
    /\ ongoing_creation = [k \in Keys |-> NoToken]
    /\ goc = [t \in Threads |-> IdleCall]
    /\ factory_calls = [k \in Keys |-> 0]
    /\ removed = [k \in Keys |-> FALSE]
    /\ direct_put = [k \in Keys |-> FALSE]
    /\ last_ret = [value |-> Null, age |-> 0]
    /\ evictions = FALSE
    /\ crashed = FALSE
    /\ ReaderIdle
    /\ FhIdle
    /\ GlobIdle
    /\ ExtIdle

GocNext ==
    \/ Tick
    \/ \E t \in Threads, k \in Keys : GocStart(t, k)
    \/ \E t \in Threads : GocFactory(t)
    \/ \E t \in Threads : GocPublish(t)
    \/ \E t \in Threads : GocWake(t)
    \/ \E k \in Keys : LruDelete(k)

SpecGoc == GocInit /\ [][GocNext]_vars

\* A factory of the shared_ptr variant that returns nullptr.
GocFactoryNull(t) ==
    /\ ~crashed
    /\ goc[t].pc = "factory"
    /\ factory_calls' = [factory_calls EXCEPT ![goc[t].key] = @ + 1]
    /\ goc' = [goc EXCEPT ![t].pc = "publish", ![t].val = Null]
    /\ UNCHANGED <<readerVars, extVars, fhVars, globVars>>
    /\ UNCHANGED <<now, cache_kind, cache, ongoing_creation, removed, direct_put,
                   last_ret, evictions, crashed>>

\* The calls of the cache, at one instant of the clock.
GocLiveNext ==
    \/ \E t \in Threads, k \in Keys : GocStart(t, k)
    \/ \E t \in Threads : GocFactory(t)
    \/ \E t \in Threads : GocFactoryNull(t)
    \/ \E t \in Threads : GocPublish(t)
    \/ \E t \in Threads : GocWake(t)
    \/ \E k \in Keys : LruDelete(k)
    \/ \E k \in Keys : LruPut(k)
    \/ LruClear

\* The steps of a call in progress. A factory terminates, a thread that wants
\* the mutex gets it, and notify_all wakes every waiter whose predicate holds:
\* each of these steps, once enabled for good, is taken.
GocProgress(t) == GocFactory(t) \/ GocFactoryNull(t) \/ GocPublish(t) \/ GocWake(t)

SpecGocLive == GocInit /\ [][GocLiveNext]_vars /\ \A t \in Threads : WF_vars(GocProgress(t))

\* ------------------------------------------------------ CacheFileSystem::Glob
MaxUncachedGlobs == 2

\* A path without glob metacharacters; the keys of the cache stand for the
\* patterns that have some.
PlainPath == "plain"
Patterns == Keys \cup {PlainPath}

\* A HasGlob that finds no metacharacter in any path.
HasGlobNever(path) == FALSE

\* FileSystem::HasGlob
HasGlob(path) == path \in Keys

GlobInit ==
    /\ now = 0
    /\ cache_kind = "shared"
    /\ \E m \in GocCapacities, to \in Timeouts : cache = NewCache(m, to)
    /\ ongoing_creation = [k \in Keys |-> NoToken]
    /\ goc = [t \in Threads |-> IdleCall]
    /\ factory_calls = [k \in Keys |-> 0]
    /\ removed = [k \in Keys |-> FALSE]
    /\ direct_put = [k \in Keys |-> FALSE]
    /\ last_ret = [value |-> Null, age |-> 0]
    /\ evictions = FALSE
    /\ crashed = FALSE
    /\ ReaderIdle
    /\ FhIdle
    /\ ExtIdle
    /\ glob_enabled = TRUE
    /\ uncached_globs = 0

\* CacheFileSystem::Glob up to the first critical section of GetOrCreate.
\* Without a glob cache, or for a path without metacharacters, the inner glob
\* is called on the spot; else GetOrCreate looks the pattern up and its
\* factory (GlobImpl, the inner glob) runs in GocFactory.
Glob(t, path) ==
    /\ ~crashed
    /\ goc[t].pc = "idle"
    /\ IF ~glob_enabled \/ ~HasGlob(path)
       THEN /\ uncached_globs < MaxUncachedGlobs
            /\ uncached_globs' = uncached_globs + 1
            /\ UNCHANGED <<cache, removed, goc, last_ret, ongoing_creation>>
       ELSE /\ GocLookup(t, path)
            /\ UNCHANGED uncached_globs
    /\ UNCHANGED <<readerVars, extVars, fhVars, glob_enabled>>
    /\ UNCHANGED <<now, cache_kind, factory_calls, direct_put, evictions, crashed>>

\* Some Glob call is inside glob_cache->GetOrCreate.
GlobInFlight == \E t \in Threads : goc[t].pc # "idle"

\* CacheFileSystem::SetGlobCache with the glob cache switched off: the cache is
\* destroyed with its entries. Glob holds no lock while it uses the cache, so
\* a call still inside GetOrCreate then works on a destroyed object.
SetGlobCacheOff ==
    /\ ~crashed
    /\ glob_enabled
    /\ glob_enabled' = FALSE
    /\ cache' = SharedClear(cache)
    /\ removed' = MarkRemoved(cache, SharedClear(cache))
    /\ crashed' = GlobInFlight
    /\ UNCHANGED <<readerVars, extVars, fhVars, uncached_globs>>
    /\ UNCHANGED <<now, cache_kind, ongoing_creation, goc, factory_calls, direct_put,
                   last_ret, evictions>>

\* CacheFileSystem::SetGlobCache with the glob cache switched on and no cache yet.
SetGlobCacheOn ==
    /\ ~crashed
    /\ ~glob_enabled
    /\ glob_enabled' = TRUE
    /\ cache' = NewCache(cache.max_entries, cache.timeout_millisec)
    /\ UNCHANGED <<readerVars, extVars, fhVars, uncached_globs>>
    /\ UNCHANGED <<now, cache_kind, ongoing_creation, goc, factory_calls, removed,
                   direct_put, last_ret, evictions, crashed>>

GlobNext ==
    \/ Tick
    \/ \E t \in Threads, path \in Patterns : Glob(t, path)
    \/ \E t \in Threads : GocFactory(t)
    \/ \E t \in Threads : GocPublish(t)
    \/ \E t \in Threads : GocWake(t)
    \/ SetGlobCacheOff
    \/ SetGlobCacheOn

SpecGlob == GlobInit /\ [][GlobNext]_vars

\* ThreadSafeExclusiveLruCache::Put
ExclPutOp(key) ==
    /\ ~crashed
    /\ cache_kind = "exclusive"
    /\ Len(cache.lru_list) < MaxListLen
    /\ LET r == ExclusivePut(cache, key, PutVal, now)
       IN /\ cache' = r.cache
          /\ crashed' = r.ub
          /\ evictions' = (evictions \/ r.evicted # Null)
    /\ UNCHANGED <<readerVars, extVars, fhVars, globVars>>
    /\ UNCHANGED <<now, cache_kind, ongoing_creation, goc, factory_calls, removed,
                   direct_put, last_ret>>

\* ThreadSafeExclusiveLruCache::GetAndPop
ExclGetAndPopOp(key) ==
    /\ ~crashed
    /\ cache_kind = "exclusive"
    /\ LET r == ExclusiveGetAndPop(cache, key, now)
       IN /\ cache' = r.cache
          /\ last_ret' = [value |-> r.value,
                          age |-> IF r.value = Null THEN 0 ELSE now - r.inserted]
    /\ UNCHANGED <<readerVars, extVars, fhVars, globVars>>
    /\ UNCHANGED <<now, cache_kind, ongoing_creation, goc, factory_calls, removed,
                   direct_put, evictions, crashed>>

\* ThreadSafeExclusiveLruCache::Delete
ExclDeleteOp(key) ==
    /\ ~crashed
    /\ cache_kind = "exclusive"
    /\ Found(cache, key)
    /\ cache' = SharedDelete(cache, key)
    /\ UNCHANGED <<readerVars, extVars, fhVars, globVars>>
    /\ UNCHANGED <<now, cache_kind, ongoing_creation, goc, factory_calls, removed,
                   direct_put, last_ret, evictions, crashed>>

\* ThreadSafeExclusiveLruCache::Clear / ClearAndGetValues
ExclClearOp ==
    /\ ~crashed
    /\ cache_kind = "exclusive"
    /\ cache.lru_list # <<>>
    /\ cache' = SharedClear(cache)
    /\ UNCHANGED <<readerVars, extVars, fhVars, globVars>>
    /\ UNCHANGED <<now, cache_kind, ongoing_creation, goc, factory_calls, removed,
                   direct_put, last_ret, evictions, crashed>>

\* ThreadSafeExclusiveMultiLruCache::Put
MultiPutOp(key) ==
    /\ ~crashed
    /\ cache_kind = "multi"
    /\ Len(cache.lru_list) < MaxListLen
    /\ cache.cur_entries_num < MaxListLen
    /\ LET r == MultiPut(cache, key, PutVal, now)
       IN /\ cache' = r.cache
          /\ evictions' = (evictions \/ r.evicted # Null)
    /\ UNCHANGED <<readerVars, extVars, fhVars, globVars>>
    /\ UNCHANGED <<now, cache_kind, ongoing_creation, goc, factory_calls, removed,
                   direct_put, last_ret, crashed>>

\* ThreadSafeExclusiveMultiLruCache::GetAndPop
MultiGetAndPopOp(key) ==
    /\ ~crashed
    /\ cache_kind = "multi"
    /\ LET r == MultiGetAndPop(cache, key, now)
       IN /\ cache' = r.cache
          /\ crashed' = r.ub
          /\ last_ret' = [value |-> r.target_item,
                          age |-> IF r.target_item = Null THEN 0 ELSE now - r.inserted]
    /\ UNCHANGED <<readerVars, extVars, fhVars, globVars>>
    /\ UNCHANGED <<now, cache_kind, ongoing_creation, goc, factory_calls, removed,
                   direct_put, evictions>>

\* ThreadSafeExclusiveMultiLruCache::ClearAndGetValues
MultiClearOp ==
    /\ ~crashed
    /\ cache_kind = "multi"
    /\ cache.lru_list # <<>>
    /\ cache' = MultiClearAndGetValues(cache).cache
    /\ UNCHANGED <<readerVars, extVars, fhVars, globVars>>
    /\ UNCHANGED <<now, cache_kind, ongoing_creation, goc, factory_calls, removed,
                   direct_put, last_ret, evictions, crashed>>

LruNext ==
    \/ Tick
    \/ \E k \in Keys : ExclPutOp(k)
    \/ \E k \in Keys : ExclGetAndPopOp(k)
    \/ \E k \in Keys : ExclDeleteOp(k)
    \/ ExclClearOp
    \/ \E k \in Keys : MultiPutOp(k)
    \/ \E k \in Keys : MultiGetAndPopOp(k)
    \/ MultiClearOp
    \/ \E k \in Keys : LruPut(k)
    \/ \E k \in Keys : LruGet(k)
    \/ \E k \in Keys : LruDelete(k)
    \/ LruClear

SpecLru == LruInit /\ [][LruNext]_vars

\* ============================================================ cache readers
FileSize == 4
MaxReads == 2
BlockSizes == {2, 3}
MemCapacities == {0, 2}
\* g_max_subrequest_count: the most sub-requests of one read that run at once.
MaxSubrequestCount == 2
\* The most calls of CacheLocal that throw in one behaviour.
MaxOrphanTemps == 1
Clients == {1, 2}
\* (location, nr_bytes) of the positional reads the clients issue: the whole
\* file, a range straddling a block boundary, a range that starts at the last
\* byte and runs past the end of the file, ranges that start at and after the
\* end of the file.
Requests == {<<0, FileSize>>, <<1, 2>>, <<FileSize - 1, 2>>, <<FileSize, 1>>,
             <<FileSize + 1, 1>>}

Min(a, b) == IF a < b THEN a ELSE b

\* The inner file holds byte p + 1 at position p; 0 marks a buffer cell that
\* was never written.
InnerFileBytes(off, len) == [j \in 1..len |-> off + j]

\* --------------------------------------------------- ReadAndCache: planning
\* A plan that starts at the requested offset itself.
AlignedStartRaw(loc, B) == loc

AlignedStart(loc, B) == (loc \div B) * B

AlignedLast(loc, n, B) == ((loc + n) \div B) * B

SubrequestCount(loc, n, B) == (AlignedLast(loc, n, B) - AlignedStart(loc, B)) \div B + 1

\* The i-th CacheReadChunk of the loop over io_start_offset. buf_start is
\* addr_to_write - buffer (already_read_bytes), delta_offset is
\* requested_start_offset - aligned_start_offset at that iteration, has_content
\* is whether the disk reader sized `content` to a non-empty string up front.
PlanChunk(loc, n, B, fs, i) ==
    LET first == AlignedStart(loc, B)
        last == AlignedLast(loc, n, B)
        off == first + (i - 1) * B
        already_read_bytes == IF i = 1 THEN 0 ELSE (B - (loc - first)) + (i - 2) * B
    IN IF off = first /\ off = last
       THEN [aligned_start_offset |-> off, chunk_size |-> Min(B, fs - off),
             buf_start |-> 0, delta_offset |-> loc - first, bytes_to_copy |-> n,
             has_content |-> Min(B, fs - off) > 0]
       ELSE IF off = first
       THEN [aligned_start_offset |-> off, chunk_size |-> B,
             buf_start |-> 0, delta_offset |-> loc - first,
             bytes_to_copy |-> B - (loc - first), has_content |-> TRUE]
       ELSE IF off = last
       THEN [aligned_start_offset |-> off, chunk_size |-> Min(B, fs - off),
             buf_start |-> already_read_bytes, delta_offset |-> 0,
             bytes_to_copy |-> n - already_read_bytes,
             has_content |-> Min(B, fs - off) > 0]
       ELSE [aligned_start_offset |-> off, chunk_size |-> B,
             buf_start |-> already_read_bytes, delta_offset |-> 0,
             bytes_to_copy |-> B, has_content |-> FALSE]

\* A copy that starts at the head of the block whatever the requested offset.
CopyFromBlockStart(buffer, ch, content) ==
    [j \in 1..Len(buffer) |->
        IF j > ch.buf_start /\ j <= ch.buf_start + ch.bytes_to_copy
        THEN LET src == j - ch.buf_start
             IN IF src <= Len(content) THEN content[src] ELSE 0
        ELSE buffer[j]]

\* memmove(requested_start_addr, content.data() + delta_offset, bytes_to_copy)
CopyBufferToRequestedMemory(buffer, ch, content) ==
    [j \in 1..Len(buffer) |->
        IF j > ch.buf_start /\ j <= ch.buf_start + ch.bytes_to_copy
        THEN LET src == ch.delta_offset + (j - ch.buf_start)
             IN IF src <= Len(content) THEN content[src] ELSE 0
        ELSE buffer[j]]

\* The disk reader's hit path: the cache file is read into `content` and copied,
\* or, when `content` is empty, chunk_size bytes are read straight to the
\* requested address.
DiskHitCopy(buffer, ch, content) ==
    IF ch.has_content
    THEN CopyBufferToRequestedMemory(buffer, ch, content)
    ELSE [j \in 1..Len(buffer) |->
             IF j > ch.buf_start /\ j <= ch.buf_start + ch.chunk_size
             THEN content[j - ch.buf_start]
             ELSE buffer[j]]

\* ------------------------------------------------------ on-disk cache files
\* <cache_directory>/<sha256>-<fname>-<start_offset>-<bytes_to_read>; the model
\* has one remote file, so offset and size name the cache file.
GetLocalCacheFile(start_offset, bytes_to_read) == <<"blk", start_offset, bytes_to_read>>

\* CacheLocal writing the block under the cache file name itself.
LocalTempFileInPlace(client, i, ch) ==
    <<"blk", ch.aligned_start_offset, ch.chunk_size>>

\* <cache_directory><fname>.<uuid>.httpfs_local_cache; a fresh UUID per call,
\* here the client and index of the publishing sub-request. The name lies
\* beside the cache directory, not inside it.
LocalTempFile(client, i, ch) == <<"tmp", client, i>>

IsCacheFile(name) == name[1] = "blk"

\* The temporary files of CacheLocal calls that threw. Their names are never
\* generated again and nothing opens or removes them; they are kept under the
\* names <<"tmp", 0, n>>, whatever they hold.
OrphanTemps(fs) == {name \in DOMAIN fs : name[1] = "tmp" /\ name[2] = 0}

Orphaned(fs, temp) ==
    IF temp \in DOMAIN fs /\ ~IsCacheFile(temp)
    THEN LET orphan == <<"tmp", 0, Cardinality(OrphanTemps(fs)) + 1>>
         IN [name \in (DOMAIN fs \ {temp}) \cup {orphan} |->
                IF name = orphan THEN [content |-> <<>>, stale |-> FALSE] ELSE fs[name]]
    ELSE fs

\* Whether one more call of CacheLocal may throw.
MayThrow(fs) == Cardinality(OrphanTemps(fs)) < MaxOrphanTemps

\* An eviction that removes nothing.
EvictNoCacheFiles(fs) == fs

\* EvictStaleCacheFiles removes the files of the cache directory whose last
\* modification is at least CACHE_FILE_STALENESS_SECOND old.
EvictStaleCacheFiles(fs) ==
    LET keep == {name \in DOMAIN fs : ~(IsCacheFile(name) /\ fs[name].stale)}
    IN [name \in keep |-> fs[name]]

\* A rename that copies the source to the target and leaves the source behind.
MoveFileKeepsSource(fs, source, target) ==
    [name \in DOMAIN fs \cup {target} |-> IF name = target THEN fs[source] ELSE fs[name]]

\* MoveFile(source, target): rename(2), replacing the target atomically.
MoveFile(fs, source, target) ==
    LET names == (DOMAIN fs \ {source}) \cup {target}
    IN [name \in names |-> IF name = target THEN fs[source] ELSE fs[name]]

\* A failed rename that nevertheless left the source's bytes under the target.
FailedMoveFileCreatesTarget(fs, source, target) ==
    [name \in DOMAIN fs \cup {target} |-> IF name = target THEN fs[source] ELSE fs[name]]

\* MoveFile that throws: rename(2) failed and changed nothing.
FailedMoveFile(fs, source, target) == fs

\* ---------------------------------------------------- in-memory block cache
\* InMemCacheBlock keys (start_off, blk_size) of the one remote file.
BlockKeys(B) == (0..FileSize) \X (0..B)

NewBlockCache(B, max_entries_p, timeout_millisec_p) ==
    [lru_list |-> <<>>, entry_map |-> [k \in BlockKeys(B) |-> <<>>],
     cur_entries_num |-> 0, max_entries |-> max_entries_p,
     timeout_millisec |-> timeout_millisec_p]

\* A Get that hands the cached buffer itself to the caller, who zeroes it.
CopiableGetScribbles(c, key, t) ==
    IF ~Found(c, key) THEN [cache |-> c, value |-> <<>>]
    ELSE LET e == c.entry_map[key][1]
             c1 == ListSpliceFront(c, e.lru_iterator)
         IN [cache |-> [c1 EXCEPT !.entry_map[key][1].value =
                                      [j \in 1..Len(e.value) |-> 0]],
             value |-> e.value]

\* CopiableValueLruCache::Get returns [cache, value]; Val{} (the empty buffer)
\* for an absent or expired key.
CopiableGet(c, key, t) ==
    IF ~Found(c, key) THEN [cache |-> c, value |-> <<>>]
    ELSE LET e == c.entry_map[key][1]
         IN IF Expired(c, e, t)
            THEN [cache |-> SharedDeleteImpl(c, key), value |-> <<>>]
            ELSE [cache |-> ListSpliceFront(c, e.lru_iterator), value |-> e.value]

\* ------------------------------------------------------------ logical reads
IdleRead ==
    [pc |-> "idle", location |-> 0, nr_bytes |-> 0, buffer |-> <<>>, chunks |-> <<>>,
     inner_count |-> 0, created |-> 0, precached |-> FALSE, quiet |-> TRUE,
     failed |-> FALSE, pub_failed |-> FALSE, clean |-> TRUE, requested |-> 0,
     lost_file |-> FALSE]

ChunkAt(r, i) == PlanChunk(reads[r].location, reads[r].nr_bytes, block_size, FileSize, i)

BlockKeyOf(ch) == <<ch.aligned_start_offset, ch.chunk_size>>

\* Whether the block of a chunk is in the cache of the active reader.
BlockCached(ch) ==
    IF reader_kind = "disk"
    THEN GetLocalCacheFile(ch.aligned_start_offset, ch.chunk_size) \in DOMAIN files
    ELSE Found(cache, BlockKeyOf(ch))

\* An entry left the cache: reads in progress no longer run undisturbed.
Disturb(rs, happened) ==
    [r \in Clients |-> IF happened /\ rs[r].pc = "running"
                       THEN [rs[r] EXCEPT !.quiet = FALSE] ELSE rs[r]]

ReaderInit ==
    /\ now = 0
    /\ cache_kind = "copiable"
    /\ reader_kind \in {"disk", "mem"}
    /\ block_size \in BlockSizes
    /\ \E m \in MemCapacities :
          cache = NewBlockCache(block_size, IF reader_kind = "mem" THEN m ELSE 0, 0)
    /\ ongoing_creation = [k \in Keys |-> NoToken]
    /\ goc = [t \in Threads |-> IdleCall]
    /\ factory_calls = [k \in Keys |-> 0]
    /\ removed = [k \in Keys |-> FALSE]
    /\ direct_put = [k \in Keys |-> FALSE]
    /\ last_ret = [value |-> Null, age |-> 0]
    /\ evictions = FALSE
    /\ crashed = FALSE
    /\ files = <<>>
    /\ reads = [r \in Clients |-> IdleRead]
    /\ inner_log = {}
    /\ reads_started = 0
    /\ FhIdle
    /\ GlobIdle
    /\ ExtIdle

readerIdleVars == <<now, cache_kind, ongoing_creation, goc, factory_calls, removed,
                    direct_put, last_ret, crashed, reader_kind, block_size, extVars>>

\* ReadImpl that passes the requested length on as it is.
BytesToReadUntruncated(nr_bytes, location, file_size) == nr_bytes

\* MinValue<int64_t>(nr_bytes, file_size - location)
BytesToRead(nr_bytes, location, file_size) == Min(nr_bytes, file_size - location)

\* CacheFileSystem::ReadImpl: a read at or after the end of the file returns 0
\* at once; else the planning loop of ReadAndCache pushes every chunk to the
\* thread pool.
StartRead(r, req) ==
    /\ reads[r].pc \in {"idle", "returned"}
    /\ reads_started < MaxReads
    /\ LET loc == req[1]
           n == BytesToRead(req[2], loc, FileSize)
           cnt == SubrequestCount(loc, n, block_size)
       IN reads' = [reads EXCEPT ![r] =
              IF loc >= FileSize
              THEN [IdleRead EXCEPT !.pc = "returned", !.location = loc,
                                    !.requested = req[2], !.clean = reads[r].clean]
              ELSE [pc |-> "running", location |-> loc, nr_bytes |-> n,
                    buffer |-> [j \in 1..n |-> 0],
                    chunks |-> [i \in 1..cnt |-> [pc |-> "queued", content |-> <<>>]],
                    inner_count |-> 0, created |-> 0,
                    precached |-> \A i \in 1..cnt :
                                     BlockCached(PlanChunk(loc, n, block_size, FileSize, i)),
                    quiet |-> TRUE, failed |-> FALSE, pub_failed |-> FALSE,
                    clean |-> reads[r].clean, requested |-> req[2],
                    lost_file |-> FALSE]]
    /\ reads_started' = reads_started + 1
    /\ UNCHANGED <<readerIdleVars, cache, evictions, files, inner_log, fhVars, globVars>>

SetChunk(rd, i, pc_p, content_p) ==
    [rd EXCEPT !.chunks[i] = [pc |-> pc_p, content |-> content_p]]

\* What an exception thrown inside a sub-request does: the packaged_task of
\* ThreadPool::Push stores it in a future nobody reads; the job just ends.
\* A sub-request that starts its fetch over after an exception.
SubrequestRetries(rd, i) == SetChunk(rd, i, "fetch", <<>>)

\* A sub-request whose inner read threw and that goes on to publish its buffer.
SubrequestThrowsAndPublishes(rd, i) ==
    [SetChunk(rd, i, IF reader_kind = "mem" THEN "mem_put" ELSE "temp_written", <<>>)
        EXCEPT !.failed = TRUE, !.clean = FALSE]

SubrequestThrows(rd, i) ==
    [SetChunk(rd, i, "failed", <<>>) EXCEPT !.failed = TRUE, !.clean = FALSE]

\* An exception thrown inside CacheLocal ends the job the same way; the block
\* was copied to the caller before.
CacheLocalThrows(rd, i) ==
    [SetChunk(rd, i, "failed", <<>>) EXCEPT !.pub_failed = TRUE, !.clean = FALSE]

\* A pool with one worker per sub-request whatever the limit is.
GetThreadCountUnlimited(io_request_count, g_max_subrequest_count) == io_request_count

GetThreadCountForSubrequests(io_request_count, g_max_subrequest_count) ==
    IF g_max_subrequest_count = 0 THEN io_request_count
    ELSE Min(io_request_count, g_max_subrequest_count)

\* A worker of the read's thread pool takes the job at the head of the queue.
WorkerTakes(rd, i) ==
    /\ rd.pc = "running"
    /\ i \in DOMAIN rd.chunks
    /\ rd.chunks[i].pc = "queued"
    /\ \A j \in 1..(i - 1) : rd.chunks[j].pc # "queued"
    /\ Cardinality({j \in DOMAIN rd.chunks : rd.chunks[j].pc \notin {"queued", "done", "failed"}})
          < GetThreadCountForSubrequests(Len(rd.chunks), MaxSubrequestCount)

\* Disk sub-request, first step: local_filesystem->FileExists(local_cache_file).
DiskFileExists(r, i) ==
    /\ reader_kind = "disk"
    /\ WorkerTakes(reads[r], i)
    /\ LET ch == ChunkAt(r, i)
       IN reads' = [reads EXCEPT ![r] =
              SetChunk(@, i, IF BlockCached(ch) THEN "hit_open" ELSE "fetch", <<>>)]
    /\ UNCHANGED <<readerIdleVars, cache, evictions, files, inner_log, reads_started, fhVars, globVars, extVars>>

\* Disk sub-request, cache hit: OpenFile, Read of chunk_size bytes, copy, utime.
\* A file that is gone (OpenFile) or too short (Read) throws.
DiskHitRead(r, i) ==
    /\ reader_kind = "disk"
    /\ reads[r].pc = "running"
    /\ i \in DOMAIN reads[r].chunks
    /\ reads[r].chunks[i].pc = "hit_open"
    /\ LET ch == ChunkAt(r, i)
           name == GetLocalCacheFile(ch.aligned_start_offset, ch.chunk_size)
       IN IF name \notin DOMAIN files \/ Len(files[name].content) < ch.chunk_size
          THEN /\ reads' = [reads EXCEPT ![r] =
                      [SubrequestThrows(@, i) EXCEPT
                          !.lost_file = @ \/ name \notin DOMAIN files]]
               /\ UNCHANGED files
          ELSE /\ reads' = [reads EXCEPT ![r] =
                      SetChunk([@ EXCEPT !.buffer = DiskHitCopy(@, ch, files[name].content)],
                               i, "done", <<>>)]
               /\ files' = [files EXCEPT ![name].stale = FALSE]
    /\ UNCHANGED <<readerIdleVars, cache, evictions, inner_log, reads_started, fhVars, globVars>>

\* In-memory sub-request, first step: cache->Get(block_key); a non-empty buffer
\* is a hit and is copied out.
MemGet(r, i) ==
    /\ reader_kind = "mem"
    /\ WorkerTakes(reads[r], i)
    /\ LET ch == ChunkAt(r, i)
           g == CopiableGet(cache, BlockKeyOf(ch), now)
       IN /\ cache' = g.cache
          /\ reads' = [reads EXCEPT ![r] =
                IF Len(g.value) > 0
                THEN SetChunk([@ EXCEPT !.buffer =
                                   CopyBufferToRequestedMemory(@, ch, g.value)],
                              i, "done", <<>>)
                ELSE SetChunk(@, i, "fetch", <<>>)]
    /\ UNCHANGED <<readerIdleVars, evictions, files, inner_log, reads_started, fhVars, globVars>>

\* A missed sub-request reads its block from the inner filesystem and copies it
\* to the caller. The disk reader then enters CacheLocal: without disk space it
\* evicts stale cache files and returns, else it creates the temporary file
\* (FILE_CREATE_NEW throws when the name exists).
Fetch(r, i) ==
    /\ reads[r].pc = "running"
    /\ i \in DOMAIN reads[r].chunks
    /\ reads[r].chunks[i].pc = "fetch"
    /\ LET ch == ChunkAt(r, i)
           content == InnerFileBytes(ch.aligned_start_offset, ch.chunk_size)
           temp == LocalTempFile(r, i, ch)
       IN /\ inner_log' = inner_log \cup {<<ch.aligned_start_offset, ch.chunk_size>>}
          /\ \E inner_ok \in BOOLEAN, can_cache_on_disk \in BOOLEAN :
                LET counted == [reads[r] EXCEPT !.inner_count = @ + 1]
                    copied == [counted EXCEPT !.buffer =
                                  CopyBufferToRequestedMemory(@, ch, content)]
                IN IF ~inner_ok
                   THEN /\ can_cache_on_disk
                        /\ reads' = [reads EXCEPT ![r] = SubrequestThrows(counted, i)]
                        /\ UNCHANGED files
                   ELSE IF reader_kind = "mem"
                   THEN /\ can_cache_on_disk
                        /\ reads' = [reads EXCEPT ![r] = SetChunk(copied, i, "mem_put", content)]
                        /\ UNCHANGED files
                   ELSE IF ~can_cache_on_disk
                   THEN /\ files' = EvictStaleCacheFiles(files)
                        /\ reads' = Disturb([reads EXCEPT ![r] =
                                        SetChunk([copied EXCEPT !.clean = FALSE], i, "done", <<>>)],
                                            DOMAIN files # DOMAIN EvictStaleCacheFiles(files))
                   ELSE IF temp \in DOMAIN files
                   THEN /\ reads' = [reads EXCEPT ![r] = CacheLocalThrows(copied, i)]
                        /\ UNCHANGED files
                   ELSE /\ files' = (temp :> [content |-> <<>>, stale |-> FALSE]) @@ files
                        /\ reads' = [reads EXCEPT ![r] = SetChunk(copied, i, "temp_open", content)]
    /\ UNCHANGED <<readerIdleVars, cache, evictions, reads_started, fhVars, globVars>>

\* CacheLocal: Write of the whole chunk to the temporary file, then Sync.
\* Either may throw, which leaves the temporary file behind.
CacheLocalWrite(r, i) ==
    /\ reader_kind = "disk"
    /\ reads[r].pc = "running"
    /\ i \in DOMAIN reads[r].chunks
    /\ reads[r].chunks[i].pc = "temp_open"
    /\ LET ch == ChunkAt(r, i)
           temp == LocalTempFile(r, i, ch)
           written == IF temp \in DOMAIN files
                      THEN [files EXCEPT ![temp].content = reads[r].chunks[i].content]
                      ELSE files
       IN \E write_ok \in BOOLEAN :
             /\ write_ok \/ MayThrow(files)
             /\ files' = IF write_ok THEN written ELSE Orphaned(files, temp)
             /\ reads' = [reads EXCEPT ![r] =
                    IF write_ok
                    THEN SetChunk(@, i, "temp_written", @.chunks[i].content)
                    ELSE CacheLocalThrows(@, i)]
    /\ UNCHANGED <<readerIdleVars, cache, evictions, inner_log, reads_started, fhVars, globVars>>

\* CacheLocal: MoveFile of the temporary file onto the cache file name.
CacheLocalMove(r, i) ==
    /\ reader_kind = "disk"
    /\ reads[r].pc = "running"
    /\ i \in DOMAIN reads[r].chunks
    /\ reads[r].chunks[i].pc = "temp_written"
    /\ LET ch == ChunkAt(r, i)
           temp == LocalTempFile(r, i, ch)
           name == GetLocalCacheFile(ch.aligned_start_offset, ch.chunk_size)
       IN IF temp \notin DOMAIN files
          THEN /\ reads' = [reads EXCEPT ![r] = CacheLocalThrows(@, i)]
               /\ UNCHANGED files
          ELSE \E move_ok \in BOOLEAN :
                  /\ move_ok \/ MayThrow(files)
                  /\ IF move_ok
                     THEN /\ files' = MoveFile(files, temp, name)
                          /\ reads' = [reads EXCEPT ![r] =
                                 SetChunk([@ EXCEPT !.created = @ + 1], i, "done", <<>>)]
                     ELSE /\ files' = Orphaned(FailedMoveFile(files, temp, name), temp)
                          /\ reads' = [reads EXCEPT ![r] = CacheLocalThrows(@, i)]
    /\ UNCHANGED <<readerIdleVars, cache, evictions, inner_log, reads_started, fhVars, globVars>>

\* In-memory sub-request, last step: cache->Put(block_key, content).
MemPut(r, i) ==
    /\ reader_kind = "mem"
    /\ reads[r].pc = "running"
    /\ i \in DOMAIN reads[r].chunks
    /\ reads[r].chunks[i].pc = "mem_put"
    /\ LET ch == ChunkAt(r, i)
           content == reads[r].chunks[i].content
           evicts == SharedNeedsEvict(SharedPutNoEvict(cache, BlockKeyOf(ch), content, now))
       IN /\ cache' = SharedPut(cache, BlockKeyOf(ch), content, now)
          /\ evictions' = (evictions \/ evicts)
          /\ reads' = Disturb([reads EXCEPT ![r] =
                         SetChunk([@ EXCEPT !.created = @ + 1], i, "done", <<>>)], evicts)
    /\ UNCHANGED <<readerIdleVars, files, inner_log, reads_started, fhVars, globVars>>

\* io_threads.Wait() returns once every pushed job has ended; ReadImpl then
\* returns bytes_to_read to the caller.
FinishRead(r) ==
    /\ reads[r].pc = "running"
    /\ \A i \in DOMAIN reads[r].chunks : reads[r].chunks[i].pc \in {"done", "failed"}
    /\ reads' = [reads EXCEPT ![r].pc = "returned", ![r].chunks = <<>>]
    /\ UNCHANGED <<readerIdleVars, cache, evictions, files, inner_log, reads_started, fhVars, globVars>>

\* A day without access, so with no read in progress: every cache file
\* reaches the staleness threshold.
DayPasses ==
    /\ reader_kind = "disk"
    /\ \A r \in Clients : reads[r].pc # "running"
    /\ \E name \in DOMAIN files : IsCacheFile(name) /\ ~files[name].stale
    /\ files' = [name \in DOMAIN files |->
                    IF IsCacheFile(name) THEN [files[name] EXCEPT !.stale = TRUE]
                    ELSE files[name]]
    /\ UNCHANGED <<readerIdleVars, cache, evictions, reads, inner_log, reads_started, fhVars, globVars>>

MaxChunks == FileSize + 1

ReaderNext ==
    \/ \E r \in Clients, req \in Requests : StartRead(r, req)
    \/ \E r \in Clients, i \in 1..MaxChunks : DiskFileExists(r, i)
    \/ \E r \in Clients, i \in 1..MaxChunks : DiskHitRead(r, i)
    \/ \E r \in Clients, i \in 1..MaxChunks : MemGet(r, i)
    \/ \E r \in Clients, i \in 1..MaxChunks : Fetch(r, i)
    \/ \E r \in Clients, i \in 1..MaxChunks : CacheLocalWrite(r, i)
    \/ \E r \in Clients, i \in 1..MaxChunks : CacheLocalMove(r, i)
    \/ \E r \in Clients, i \in 1..MaxChunks : MemPut(r, i)
    \/ \E r \in Clients : FinishRead(r)
    \/ DayPasses

SpecReader == ReaderInit /\ [][ReaderNext]_vars

\* ============================================================ ThreadPool
\* The pool ReadAndCache creates for one logical read, its queue, its workers
\* and the calling thread, at the grain of the pool's critical sections.
MaxIoRequests == 3
FanoutSettings == {0, 1, 2}

\* Everything outside the pool, the configuration and the directory scan, unused.
BaseIdle ==
    /\ now = 0
    /\ cache_kind = "shared"
    /\ cache = NewCache(1, 0)
    /\ ongoing_creation = [k \in Keys |-> NoToken]
    /\ goc = [t \in Threads |-> IdleCall]
    /\ factory_calls = [k \in Keys |-> 0]
    /\ removed = [k \in Keys |-> FALSE]
    /\ direct_put = [k \in Keys |-> FALSE]
    /\ last_ret = [value |-> Null, age |-> 0]
    /\ evictions = FALSE
    /\ crashed = FALSE
    /\ ReaderIdle
    /\ FhIdle
    /\ GlobIdle

baseIdleVars == <<now, cache_kind, cache, ongoing_creation, goc, factory_calls, removed,
                  direct_put, last_ret, evictions, readerVars, fhVars, globVars>>

PoolInit ==
    /\ BaseIdle
    /\ pool = NoPool
    /\ \E m \in FanoutSettings : config = [DefaultConfig EXCEPT !.g_max_subrequest_count = m]
    /\ manager = NoReaders
    /\ facades = <<>>
    /\ config_seen = NothingSeen
    /\ plan = NoPlan
    /\ profile = NoProfile
    /\ cache_dir = NoDir
    /\ scan = NoScan

poolIdleVars == <<baseIdleVars, crashed, configVars, evictVars, planVars, profileVars>>

\* The jobs a worker is executing.
RunningJobs(p) == {j \in DOMAIN p.job_state : p.job_state[j] = "running"}

\* ReadAndCache: subrequest_count is at least 1; the pool is constructed with
\* GetThreadCountForSubrequests(subrequest_count) workers, all idle.
PoolCreate(subrequest_count) ==
    /\ pool.pc \in {"none", "destroyed"}
    /\ LET thread_num == GetThreadCountForSubrequests(subrequest_count,
                                                      config.g_max_subrequest_count)
       IN pool' = [pc |-> "pushing", thread_num |-> thread_num,
                   max_subrequest_count |-> config.g_max_subrequest_count,
                   io_request_count |-> subrequest_count, pushed |-> 0,
                   idle_num |-> thread_num, stopped |-> FALSE, jobs |-> <<>>,
                   workers |-> [w \in 1..thread_num |-> [pc |-> "waiting", job |-> 0]],
                   job_state |-> [j \in 1..subrequest_count |-> "unpushed"]]
    /\ UNCHANGED poolIdleVars

\* ThreadPool::Push: the job is enqueued under the mutex; after the last chunk
\* of the planning loop the caller goes on to io_threads.Wait().
PoolPush ==
    /\ pool.pc = "pushing"
    /\ LET j == pool.pushed + 1
       IN pool' = [pool EXCEPT !.jobs = Append(@, j), !.job_state[j] = "queued",
                               !.pushed = j,
                               !.pc = IF j = pool.io_request_count THEN "waiting" ELSE @]
    /\ UNCHANGED poolIdleVars

\* Worker loop, first critical section: past the wait on new_job_cv_, not
\* stopped: pop the front job and --idle_num_.
WorkerTake(w) ==
    /\ w \in DOMAIN pool.workers
    /\ pool.workers[w].pc = "waiting"
    /\ pool.jobs # <<>>
    /\ ~pool.stopped
    /\ LET j == Head(pool.jobs)
       IN pool' = [pool EXCEPT !.jobs = Tail(@), !.idle_num = @ - 1,
                               !.workers[w] = [pc |-> "running", job |-> j],
                               !.job_state[j] = "running"]
    /\ UNCHANGED poolIdleVars

\* cur_job() ends, outside the critical section; an exception of the
\* sub-request stays in the packaged_task's future.
JobEnds(w, threw) ==
    /\ w \in DOMAIN pool.workers
    /\ pool.workers[w].pc = "running"
    /\ pool' = [pool EXCEPT !.workers[w].pc = "ran",
                            !.job_state[pool.workers[w].job] =
                                IF threw THEN "threw" ELSE "done"]
    /\ UNCHANGED poolIdleVars

\* Worker loop, second critical section: ++idle_num_ and notify.
WorkerIdle(w) ==
    /\ w \in DOMAIN pool.workers
    /\ pool.workers[w].pc = "ran"
    /\ pool' = [pool EXCEPT !.workers[w] = [pc |-> "waiting", job |-> 0],
                            !.idle_num = @ + 1]
    /\ UNCHANGED poolIdleVars

\* A predicate of Wait that looks at the queue only.
WaitPredicateQueueOnly(p) == p.stopped \/ p.jobs = <<>>

\* The predicate Wait blocks on.
WaitPredicate(p) ==
    \/ p.stopped
    \/ p.idle_num = p.thread_num /\ p.jobs = <<>>

\* ThreadPool::Wait returns; ReadAndCache returns to its caller.
WaitReturns ==
    /\ pool.pc = "waiting"
    /\ WaitPredicate(pool)
    /\ pool' = [pool EXCEPT !.pc = "returned"]
    /\ UNCHANGED poolIdleVars

\* ~ThreadPool as io_threads goes out of scope: stopped_ = true, notify_all.
PoolStop ==
    /\ pool.pc = "returned"
    /\ pool' = [pool EXCEPT !.stopped = TRUE, !.pc = "joining"]
    /\ UNCHANGED poolIdleVars

\* A worker woken with stopped_ set leaves its loop.
WorkerExit(w) ==
    /\ w \in DOMAIN pool.workers
    /\ pool.workers[w].pc = "waiting"
    /\ pool.stopped
    /\ pool' = [pool EXCEPT !.workers[w].pc = "exited"]
    /\ UNCHANGED poolIdleVars

\* ~ThreadPool has joined every worker.
PoolJoined ==
    /\ pool.pc = "joining"
    /\ \A w \in DOMAIN pool.workers : pool.workers[w].pc = "exited"
    /\ pool' = [pool EXCEPT !.pc = "destroyed"]
    /\ UNCHANGED poolIdleVars

PoolNext ==
    \/ \E n \in 1..MaxIoRequests : PoolCreate(n)
    \/ PoolPush
    \/ \E w \in 1..MaxIoRequests : WorkerTake(w)
    \/ \E w \in 1..MaxIoRequests, threw \in BOOLEAN : JobEnds(w, threw)
    \/ \E w \in 1..MaxIoRequests : WorkerIdle(w)
    \/ WaitReturns
    \/ PoolStop
    \/ \E w \in 1..MaxIoRequests : WorkerExit(w)
    \/ PoolJoined

SpecPool == PoolInit /\ [][PoolNext]_vars

\* ===================================================== global configuration
\* OpenFile of a facade runs InitializeGlobalConfig under the facade's own
\* cache_reader_mutex; the configuration globals and the CacheReaderManager
\* are shared by every facade of the process.
Facades == {"f1", "f2"}

\* The values the settings of an opener may carry.
CacheTypeSettings == ALL_CACHE_TYPES \cup {"bogus"}
ProfileTypeSettings == ALL_PROFILE_TYPES \cup {"bogus"}
BlockSizeSettings == {0, 2}
MaxFanoutSettings == {0, 2}

\* opener == nullptr
NoOpener ==
    [opener |-> FALSE, cache_httpfs_type |-> ON_DISK_CACHE_TYPE,
     cache_httpfs_cache_block_size |-> 0, cache_httpfs_profile_type |-> NOOP_PROFILE_TYPE,
     cache_httpfs_max_fanout_subrequest |-> 0, cache_httpfs_ignore_sigpipe |-> FALSE]

Settings ==
    {NoOpener} \cup
    [opener : {TRUE}, cache_httpfs_type : CacheTypeSettings,
     cache_httpfs_cache_block_size : BlockSizeSettings,
     cache_httpfs_profile_type : ProfileTypeSettings,
     cache_httpfs_max_fanout_subrequest : MaxFanoutSettings,
     cache_httpfs_ignore_sigpipe : BOOLEAN]

\* The testing override of the cache type; only the unit tests assign it.
g_test_cache_type == ""

\* A load that assigns every setting as it is given.
SetGlobalConfigUnvalidated(g, s) ==
    IF ~s.opener THEN g
    ELSE [g EXCEPT !.g_cache_type = s.cache_httpfs_type,
                   !.g_cache_block_size = s.cache_httpfs_cache_block_size,
                   !.g_profile_type = s.cache_httpfs_profile_type,
                   !.g_max_subrequest_count = s.cache_httpfs_max_fanout_subrequest,
                   !.g_ignore_sigpipe = @ \/ s.cache_httpfs_ignore_sigpipe]

\* SetGlobalConfig, the settings of lines 27-64: the cache type and the profile
\* type are assigned only when recognised, the block size only when positive,
\* the fan-out always, SIGPIPE-ignore only from false to true.
SetGlobalConfig(g, s) ==
    IF ~s.opener
    THEN IF g_test_cache_type # "" THEN [g EXCEPT !.g_cache_type = g_test_cache_type] ELSE g
    ELSE LET typed == IF s.cache_httpfs_type \in ALL_CACHE_TYPES
                      THEN [g EXCEPT !.g_cache_type = s.cache_httpfs_type] ELSE g
             tested == IF g_test_cache_type # ""
                       THEN [typed EXCEPT !.g_cache_type = g_test_cache_type] ELSE typed
             sized == IF s.cache_httpfs_cache_block_size > 0
                      THEN [tested EXCEPT !.g_cache_block_size = s.cache_httpfs_cache_block_size]
                      ELSE tested
             profiled == IF s.cache_httpfs_profile_type \in ALL_PROFILE_TYPES
                         THEN [sized EXCEPT !.g_profile_type = s.cache_httpfs_profile_type]
                         ELSE sized
             fanned == [profiled EXCEPT
                           !.g_max_subrequest_count = s.cache_httpfs_max_fanout_subrequest]
         IN IF ~fanned.g_ignore_sigpipe /\ s.cache_httpfs_ignore_sigpipe
            THEN [fanned EXCEPT !.g_ignore_sigpipe = TRUE]
            ELSE fanned

\* A reset that restores every global.
ResetGlobalConfigAll(g) == DefaultConfig

\* ResetGlobalConfig: every global back to its default but g_test_cache_type
\* and g_ignore_sigpipe.
ResetGlobalConfig(g) == [DefaultConfig EXCEPT !.g_ignore_sigpipe = g.g_ignore_sigpipe]

\* A facade after construction: no profile collector, no OpenFile in progress.
\* reader_type and saw_null are the locals of SetCacheReader; opened tells
\* whether an OpenFile of the facade has returned a handle.
NoFacade == [pc |-> "idle", profile_collector |-> "null",
             reader_type |-> "null", saw_null |-> FALSE, opened |-> FALSE]

ConfigInit ==
    /\ BaseIdle
    /\ pool = NoPool
    /\ config = DefaultConfig
    /\ manager = NoReaders
    /\ facades = [f \in Facades |-> NoFacade]
    /\ cache_dir = NoDir
    /\ scan = NoScan
    /\ config_seen = NothingSeen
    /\ plan = NoPlan
    /\ profile = NoProfile

configIdleVars == <<baseIdleVars, poolVars, evictVars, planVars, profileVars>>

\* Whether a load carries an unrecognised cache type, an unrecognised profile
\* type and a block size of 0.
InvalidLoad(s) ==
    /\ s.opener
    /\ s.cache_httpfs_type \notin ALL_CACHE_TYPES
    /\ s.cache_httpfs_profile_type \notin ALL_PROFILE_TYPES
    /\ s.cache_httpfs_cache_block_size = 0

\* InitializeGlobalConfig, first call: the facade takes its mutex and
\* SetGlobalConfig(opener) runs.
LoadConfig(f, s) ==
    /\ ~crashed
    /\ facades[f].pc = "idle"
    /\ config' = SetGlobalConfig(config, s)
    /\ facades' = [facades EXCEPT ![f].pc = "set_profile"]
    /\ config_seen' =
           IF InvalidLoad(s) THEN "invalid_load"
           ELSE IF config.g_ignore_sigpipe /\ s.opener /\ ~s.cache_httpfs_ignore_sigpipe
           THEN "false_after_sigpipe"
           ELSE "other"
    /\ UNCHANGED <<configIdleVars, crashed, manager>>

\* The unique_ptr of a facade's collector is reset or reassigned: the collector
\* is destroyed and every reader that points to it is left with the address.
CollectorDestroyed(m, f) ==
    [m EXCEPT !.profile_collector =
        [t \in ALL_CACHE_TYPES |-> IF @[t] = f THEN "dangling" ELSE @[t]]]

\* CacheFileSystem::SetProfileCollector: a noop or temp collector is installed
\* unless the facade has one of that type; any other profile type falls
\* through to D_ASSERT(false), which aborts a debug build and does nothing in
\* a release build.
SetProfileCollector(f) ==
    /\ ~crashed
    /\ facades[f].pc = "set_profile"
    /\ IF config.g_profile_type \in {NOOP_PROFILE_TYPE, TEMP_PROFILE_TYPE}
       THEN /\ facades' = [facades EXCEPT ![f].profile_collector = config.g_profile_type,
                                          ![f].pc = "set_reader"]
            /\ manager' = IF facades[f].profile_collector = config.g_profile_type
                          THEN manager
                          ELSE CollectorDestroyed(manager, f)
            /\ UNCHANGED crashed
       ELSE \/ /\ crashed' = TRUE
               /\ UNCHANGED <<facades, manager>>
            \/ /\ facades' = [facades EXCEPT ![f].pc = "set_reader"]
               /\ UNCHANGED <<crashed, manager>>
    /\ UNCHANGED <<configIdleVars, config, config_seen>>

\* CacheReaderManager::SetCacheReader, the comparison of g_cache_type and the
\* test of the reader's unique_ptr against nullptr.
SetCacheReaderTest(f) ==
    /\ ~crashed
    /\ facades[f].pc = "set_reader"
    /\ facades' = [facades EXCEPT ![f].pc = "assign_reader",
                                  ![f].reader_type = config.g_cache_type,
                                  ![f].saw_null = (manager.readers[config.g_cache_type] = 0)]
    /\ UNCHANGED <<configIdleVars, crashed, config, manager, config_seen>>

\* CacheReaderManager::SetCacheReader, the rest: make_uniq of a reader when the
\* pointer was null, then internal_cache_reader = <reader>.get().
SetCacheReaderAssign(f) ==
    /\ ~crashed
    /\ facades[f].pc = "assign_reader"
    /\ LET t == facades[f].reader_type
           made == IF facades[f].saw_null
                   THEN [manager EXCEPT !.created[t] = @ + 1,
                                        !.readers[t] = manager.created[t] + 1]
                   ELSE manager
       IN manager' = [made EXCEPT !.internal_cache_reader =
                                      [type |-> t, instance |-> made.readers[t]]]
    /\ facades' = [facades EXCEPT ![f].pc = "hand_over", ![f].reader_type = "null",
                                  ![f].saw_null = FALSE]
    /\ UNCHANGED <<configIdleVars, crashed, config, config_seen>>

\* The end of InitializeGlobalConfig: D_ASSERT(profile_collector != nullptr)
\* and GetCacheReader()->SetProfileCollector(profile_collector.get()), which
\* dereferences the collector; the mutex is released and OpenFile goes on.
\* The sub-cache setters in between touch none of this state.
HandOverCollector(f) ==
    /\ ~crashed
    /\ facades[f].pc = "hand_over"
    /\ IF facades[f].profile_collector = "null"
       THEN /\ crashed' = TRUE
            /\ UNCHANGED <<facades, manager>>
       ELSE /\ manager' = [manager EXCEPT
                              !.reader_collector = facades[f].profile_collector,
                              !.profile_collector[manager.internal_cache_reader.type] = f]
            /\ facades' = [facades EXCEPT ![f].pc = "idle", ![f].opened = TRUE]
            /\ UNCHANGED crashed
    /\ UNCHANGED <<configIdleVars, config, config_seen>>

\* A dereference of a destroyed collector is undefined: the process may abort
\* or go on with what the freed memory holds.
DereferenceAll(ptrs) ==
    /\ manager' = [manager EXCEPT !.dereferenced =
                      IF "dangling" \in ptrs THEN "dangling"
                      ELSE IF "null" \in ptrs THEN "null"
                      ELSE "live"]
    /\ IF ptrs \subseteq Facades THEN UNCHANGED crashed
       ELSE IF "null" \in ptrs THEN crashed' = TRUE
       ELSE crashed' \in BOOLEAN

\* A sub-request of ReadAndCache on the active reader records its cache access
\* and its inner read with profile_collector->... . It reads through a handle
\* some OpenFile returned and, as InitializeGlobalConfig assumes, while no
\* configuration is being loaded.
SubrequestRecords ==
    /\ ~crashed
    /\ \E f \in Facades : facades[f].opened
    /\ \A f \in Facades : facades[f].pc = "idle"
    /\ manager.internal_cache_reader.type # "null"
    /\ DereferenceAll({manager.profile_collector[manager.internal_cache_reader.type]})
    /\ UNCHANGED <<configIdleVars, config, facades, config_seen>>

\* CacheAccessInfoQueryFuncInit: GetCacheReaders() lists the in-memory and the
\* on-disk reader when initialised; a reader whose collector pointer is null is
\* skipped, any other pointer is dereferenced.
CacheAccessInfoQuery ==
    /\ ~crashed
    /\ LET cache_readers == {t \in {IN_MEM_CACHE_TYPE, ON_DISK_CACHE_TYPE} :
                                manager.readers[t] # 0}
           ptrs == {manager.profile_collector[t] : t \in cache_readers} \ {"null"}
       IN /\ ptrs # {}
          /\ DereferenceAll(ptrs)
    /\ UNCHANGED <<configIdleVars, config, facades, config_seen>>

\* ~CacheFileSystem: the facade and its collector are destroyed; the readers
\* of the process-wide manager live on. A new facade takes its place.
FacadeDestroyed(f) ==
    /\ ~crashed
    /\ facades[f].pc = "idle"
    /\ facades[f].profile_collector # "null"
    /\ facades' = [facades EXCEPT ![f] = NoFacade]
    /\ manager' = CollectorDestroyed(manager, f)
    /\ UNCHANGED <<configIdleVars, crashed, config, config_seen>>

\* ResetGlobalConfig().
ResetConfig ==
    /\ ~crashed
    /\ config' = ResetGlobalConfig(config)
    /\ config_seen' = IF config.g_ignore_sigpipe THEN "reset_after_sigpipe" ELSE "other"
    /\ UNCHANGED <<configIdleVars, crashed, manager, facades>>

\* One facade opens files with every setting; the configuration is reset at
\* any time.
ConfigNext ==
    \/ \E s \in Settings : LoadConfig("f1", s)
    \/ SetProfileCollector("f1")
    \/ SetCacheReaderTest("f1")
    \/ SetCacheReaderAssign("f1")
    \/ HandOverCollector("f1")
    \/ ResetConfig

SpecConfig == ConfigInit /\ [][ConfigNext]_vars

\* The opens of a facade together with the uses of the collector pointers the
\* readers keep: sub-requests, the cache access query and the facade's end.
CollectorNext ==
    \/ ConfigNext
    \/ SubrequestRecords
    \/ CacheAccessInfoQuery
    \/ FacadeDestroyed("f1")

SpecCollector == ConfigInit /\ [][CollectorNext]_vars

\* The settings that differ in the cache type only.
ReaderSettings ==
    {s \in Settings : /\ s.opener
                      /\ s.cache_httpfs_cache_block_size = 0
                      /\ s.cache_httpfs_profile_type = NOOP_PROFILE_TYPE
                      /\ s.cache_httpfs_max_fanout_subrequest = 0
                      /\ ~s.cache_httpfs_ignore_sigpipe}

\* Several facades open files at the same time, each under its own mutex.
ManagerNext ==
    \/ \E f \in Facades, s \in ReaderSettings : LoadConfig(f, s)
    \/ \E f \in Facades : SetProfileCollector(f)
    \/ \E f \in Facades : SetCacheReaderTest(f)
    \/ \E f \in Facades : SetCacheReaderAssign(f)
    \/ \E f \in Facades : HandOverCollector(f)

SpecManager == ConfigInit /\ [][ManagerNext]_vars

\* ==================================================== stale-file eviction
\* EvictStaleCacheFiles at the grain of its directory listing, beside the
\* sub-requests that touch and create cache files and the passing of time.
CACHE_FILE_STALENESS_SECOND == 86400
\* The instants of the wall clock (std::time, seconds): around the start and
\* around one staleness threshold later.
WallClockTimes == {0, 1, 86400, 86401, 86402}
CacheDirFiles == {"c1", "c2"}

EvictInit ==
    /\ BaseIdle
    /\ pool = NoPool
    /\ config = DefaultConfig
    /\ manager = NoReaders
    /\ facades = <<>>
    /\ cache_dir = NoDir
    /\ scan = NoScan
    /\ config_seen = NothingSeen
    /\ plan = NoPlan
    /\ profile = NoProfile

evictIdleVars == <<baseIdleVars, crashed, poolVars, configVars, planVars, profileVars>>

\* Time passes.
ClockAdvances(t) ==
    /\ t > cache_dir.clock
    /\ cache_dir' = [cache_dir EXCEPT !.clock = t]
    /\ UNCHANGED <<evictIdleVars, scan>>

\* CacheLocal of a missed sub-request: the cache file appears, modified now.
CacheFileCreated(name) ==
    /\ name \notin DOMAIN cache_dir.mtime
    /\ cache_dir' = [cache_dir EXCEPT !.mtime = (name :> cache_dir.clock) @@ @]
    /\ UNCHANGED <<evictIdleVars, scan>>

\* A cache hit of a sub-request: utime sets the modification time to now.
CacheFileTouched(name) ==
    /\ name \in DOMAIN cache_dir.mtime
    /\ cache_dir.mtime[name] # cache_dir.clock
    /\ cache_dir' = [cache_dir EXCEPT !.mtime[name] = cache_dir.clock]
    /\ UNCHANGED <<evictIdleVars, scan>>

\* EvictStaleCacheFiles begins: now = std::time(nullptr), and ListFiles lists
\* the directory.
EvictBegins ==
    /\ scan.pc = "idle"
    /\ cache_dir.mtime # <<>>
    /\ scan' = [pc |-> "listing", now |-> cache_dir.clock, todo |-> DOMAIN cache_dir.mtime]
    /\ UNCHANGED <<evictIdleVars, cache_dir>>

\* static_cast<uint64_t>(difftime(now, last_mod_time)) >= CACHE_FILE_STALENESS_SECOND
\* for a last modification not after now.
IsStale(time_end, time_beg) == time_end - time_beg >= CACHE_FILE_STALENESS_SECOND

\* What is left of the directory with the file removed.
Removed(dir, name) ==
    [dir EXCEPT !.mtime = [n \in DOMAIN dir.mtime \ {name} |-> dir.mtime[n]]]

\* The callback of ListFiles for one listed file: the file is opened, its
\* modification time is read and compared, and a stale file is removed. For a
\* file modified after now the difference is negative and its conversion to
\* uint64_t is undefined: the file is removed or kept.
EvictVisits(name) ==
    /\ scan.pc = "listing"
    /\ name \in scan.todo
    /\ LET rest == scan.todo \ {name}
       IN scan' = IF rest = {} THEN NoScan ELSE [scan EXCEPT !.todo = rest]
    /\ IF name \notin DOMAIN cache_dir.mtime
       THEN UNCHANGED cache_dir
       ELSE IF cache_dir.mtime[name] > scan.now
       THEN \/ cache_dir' = Removed(cache_dir, name)
            \/ UNCHANGED cache_dir
       ELSE IF IsStale(scan.now, cache_dir.mtime[name])
       THEN cache_dir' = Removed(cache_dir, name)
       ELSE UNCHANGED cache_dir
    /\ UNCHANGED evictIdleVars

EvictNext ==
    \/ \E t \in WallClockTimes : ClockAdvances(t)
    \/ \E name \in CacheDirFiles : CacheFileCreated(name)
    \/ \E name \in CacheDirFiles : CacheFileTouched(name)
    \/ EvictBegins
    \/ \E name \in CacheDirFiles : EvictVisits(name)

SpecEvict == EvictInit /\ [][EvictNext]_vars

\* ================================================ ReadAndCache: the plan
\* The planning loop of ReadAndCache as the code runs it, one iteration per
\* step, for files, block sizes and requests drawn from small sets. The disk
\* and the in-memory reader plan alike.
MaxPlanFileSize == 6
MaxPlanBytes == 7
PlanBlockSizes == {1, 2, 3}

PlanInit ==
    /\ BaseIdle
    /\ pool = NoPool
    /\ config = DefaultConfig
    /\ manager = NoReaders
    /\ facades = <<>>
    /\ cache_dir = NoDir
    /\ scan = NoScan
    /\ config_seen = NothingSeen
    /\ plan = NoPlan
    /\ profile = NoProfile

planIdleVars == <<baseIdleVars, crashed, poolVars, configVars, evictVars, profileVars>>

\* ReadImpl and the head of ReadAndCache: a read at or after the end of the
\* file returns at once; the request is cut at the end of the file; the
\* aligned offsets are computed and the loop is entered.
PlanBegins(file_size, B, location, nr_bytes) ==
    /\ plan.pc \in {"idle", "planned"}
    /\ location < file_size
    /\ LET bytes_to_read == BytesToRead(nr_bytes, location, file_size)
       IN plan' = [pc |-> "loop", block_size |-> B, file_size |-> file_size,
                   location |-> location, requested_bytes_to_read |-> bytes_to_read,
                   aligned_start_offset |-> AlignedStart(location, B),
                   aligned_last_chunk_offset |-> AlignedLast(location, bytes_to_read, B),
                   io_start_offset |-> AlignedStart(location, B),
                   addr_to_write |-> 0, already_read_bytes |-> 0,
                   requested_start_offset |-> location, chunks |-> <<>>]
    /\ UNCHANGED planIdleVars

\* An iteration whose chunk is to copy a whole block whatever the request.
PlanIterationWholeBlock(p) ==
    [p EXCEPT !.chunks = Append(@, [requested_start_addr |-> p.addr_to_write,
                                    aligned_start_offset |-> p.io_start_offset,
                                    requested_start_offset |-> p.requested_start_offset,
                                    chunk_size |-> p.block_size,
                                    bytes_to_copy |-> p.block_size]),
              !.addr_to_write = @ + p.block_size,
              !.already_read_bytes = @ + p.block_size,
              !.requested_start_offset = p.io_start_offset + p.block_size,
              !.io_start_offset = @ + p.block_size]

\* An iteration that sizes the chunk by what the request needs of the block.
PlanIterationSizedByRequest(p) ==
    LET delta_offset == p.requested_start_offset - p.io_start_offset
        bytes == Min(p.requested_bytes_to_read - p.already_read_bytes,
                     p.block_size - delta_offset)
    IN [p EXCEPT !.chunks = Append(@, [requested_start_addr |-> p.addr_to_write,
                                       aligned_start_offset |-> p.io_start_offset,
                                       requested_start_offset |-> p.requested_start_offset,
                                       chunk_size |-> delta_offset + bytes,
                                       bytes_to_copy |-> bytes]),
                 !.addr_to_write = @ + bytes,
                 !.already_read_bytes = @ + bytes,
                 !.requested_start_offset = p.io_start_offset + p.block_size,
                 !.io_start_offset = @ + p.block_size]

\* One iteration of the loop over io_start_offset: the chunk takes
\* addr_to_write and requested_start_offset as they stand, then one of the
\* four cases sets chunk_size and bytes_to_copy and, for a first or middle
\* chunk, advances addr_to_write and already_read_bytes.
PlanIteration(p) ==
    LET io == p.io_start_offset
        first == io = p.aligned_start_offset
        last == io = p.aligned_last_chunk_offset
        delta_offset == p.requested_start_offset - p.aligned_start_offset
        advance == IF first /\ ~last THEN p.block_size - delta_offset
                   ELSE IF ~first /\ ~last THEN p.block_size
                   ELSE 0
        chunk == [requested_start_addr |-> p.addr_to_write,
                  aligned_start_offset |-> io,
                  requested_start_offset |-> p.requested_start_offset,
                  chunk_size |-> IF last THEN Min(p.block_size, p.file_size - io)
                                 ELSE p.block_size,
                  bytes_to_copy |-> IF first /\ last THEN p.requested_bytes_to_read
                                    ELSE IF first THEN p.block_size - delta_offset
                                    ELSE IF last
                                    THEN p.requested_bytes_to_read - p.already_read_bytes
                                    ELSE p.block_size]
    IN [p EXCEPT !.chunks = Append(@, chunk),
                 !.addr_to_write = @ + advance,
                 !.already_read_bytes = @ + advance,
                 !.requested_start_offset = io + p.block_size,
                 !.io_start_offset = io + p.block_size]

\* The loop body runs while io_start_offset <= aligned_last_chunk_offset; the
\* chunk is pushed to the thread pool.
PlanStep ==
    /\ plan.pc = "loop"
    /\ plan.io_start_offset <= plan.aligned_last_chunk_offset
    /\ plan' = PlanIteration(plan)
    /\ UNCHANGED planIdleVars

\* The loop ends.
PlanEnds ==
    /\ plan.pc = "loop"
    /\ plan.io_start_offset > plan.aligned_last_chunk_offset
    /\ plan' = [plan EXCEPT !.pc = "planned"]
    /\ UNCHANGED planIdleVars

PlanNext ==
    \/ \E file_size \in 1..MaxPlanFileSize, B \in PlanBlockSizes,
          location \in 0..MaxPlanFileSize, nr_bytes \in 0..MaxPlanBytes :
             PlanBegins(file_size, B, location, nr_bytes)
    \/ PlanStep
    \/ PlanEnds

SpecPlan == PlanInit /\ [][PlanNext]_vars

\* ================================================== TempProfileCollector
\* The operation ids of one collector: callers time their inner reads, opens
\* and globs with RecordOperationStart / RecordOperationEnd while the
\* reset-profile function calls Reset.
MaxOperIds == 3
Callers == {"c1", "c2"}

NoCall == [pc |-> "idle", io_oper |-> "kRead", oper_id |-> 0, found |-> "none"]

ProfileInit ==
    /\ BaseIdle
    /\ pool = NoPool
    /\ config = DefaultConfig
    /\ manager = NoReaders
    /\ facades = <<>>
    /\ cache_dir = NoDir
    /\ scan = NoScan
    /\ config_seen = NothingSeen
    /\ plan = NoPlan
    /\ profile = [NoProfile EXCEPT !.calls = [c \in Callers |-> NoCall]]

profileIdleVars == <<baseIdleVars, poolVars, configVars, evictVars, planVars>>

\* TempProfileCollector::Reset: every operation_events map is cleared and
\* every histogram reset, under stats_mutex.
Reset(p) ==
    [p EXCEPT !.operation_events = [io_oper \in IoOperations |-> {}],
              !.recorded = [io_oper \in IoOperations |-> 0]]

\* GenerateOperId, a random UUID no earlier call returned, and
\* RecordOperationStart: emplace under stats_mutex; D_ASSERT(is_new).
OperationStarts(c, io_oper) ==
    /\ ~crashed
    /\ profile.calls[c].pc = "idle"
    /\ profile.generated < MaxOperIds
    /\ LET oper_id == profile.generated + 1
           is_new == oper_id \notin profile.operation_events[io_oper]
       IN /\ profile' = [profile EXCEPT
                 !.generated = oper_id,
                 !.operation_events[io_oper] = @ \cup {oper_id},
                 !.calls[c] = [pc |-> "started", io_oper |-> io_oper,
                               oper_id |-> oper_id, found |-> "none"]]
          /\ IF is_new THEN UNCHANGED crashed ELSE crashed' \in BOOLEAN
    /\ UNCHANGED profileIdleVars

\* RecordOperationEnd: find under stats_mutex, D_ASSERT(iter != end), the
\* latency goes to the histogram and the entry is erased. Without the entry a
\* debug build aborts and a release build dereferences and erases end().
OperationEnds(c) ==
    /\ ~crashed
    /\ profile.calls[c].pc = "started"
    /\ LET io_oper == profile.calls[c].io_oper
           oper_id == profile.calls[c].oper_id
       IN IF oper_id \in profile.operation_events[io_oper]
          THEN /\ profile' = [profile EXCEPT
                      !.operation_events[io_oper] = @ \ {oper_id},
                      !.recorded[io_oper] = @ + 1,
                      !.calls[c] = [NoCall EXCEPT !.found = "found"]]
               /\ UNCHANGED crashed
          ELSE /\ profile' = [profile EXCEPT !.calls[c] = [NoCall EXCEPT !.found = "missing"]]
               /\ crashed' \in BOOLEAN
    /\ UNCHANGED profileIdleVars

\* The reset-profile function of the extension.
ProfileReset ==
    /\ ~crashed
    /\ profile' = Reset(profile)
    /\ UNCHANGED <<profileIdleVars, crashed>>

ProfileNext ==
    \/ \E c \in Callers, io_oper \in IoOperations : OperationStarts(c, io_oper)
    \/ \E c \in Callers : OperationEnds(c)
    \/ ProfileReset

SpecProfile == ProfileInit /\ [][ProfileNext]_vars

\* ================================================ clear_cache(fname)
\* Remote files: two directories holding a file of the same name, and one more.
RemoteFiles == {"a/x", "b/x", "a/y"}
\* Start offsets of the blocks a read caches.
BlockOffsets == {0, 2}

\* sha256 of the whole remote path, in hex: one token per path.
Sha256ToHexString(remote_file) == remote_file

\* StringUtil::GetFileName: the part after the last slash.
GetFileName(remote_file) == IF remote_file = "a/y" THEN "y" ELSE "x"

\* The name of a cache file inside the cache directory, as GetLocalCacheFile
\* formats it: "%s/%s-%s-%llu-%llu". A name is the sequence of its parts, with
\* the separator after the hash kept as a part of its own.
LocalCacheFileName(remote_file, start_offset, bytes_to_read) ==
    <<Sha256ToHexString(remote_file), "-", GetFileName(remote_file),
      start_offset, bytes_to_read>>

\* GetLocalCacheFilePrefix formats "%s.%s".
GetLocalCacheFilePrefix(remote_file) ==
    <<Sha256ToHexString(remote_file), ".", GetFileName(remote_file)>>

\* StringUtil::StartsWith
StartsWith(str, prefix) ==
    Len(prefix) <= Len(str) /\ SubSeq(str, 1, Len(prefix)) = prefix

\* DiskCacheReader::ClearCache(fname): RemoveFile for every listed file whose
\* name starts with the prefix.
DiskClearCache(fs, fname) ==
    LET keep == {name \in DOMAIN fs : ~StartsWith(name, GetLocalCacheFilePrefix(fname))}
    IN [name \in keep |-> fs[name]]

\* InMemCacheBlock keys (fname, start_off, blk_size).
InMemCacheBlocks == RemoteFiles \X BlockOffsets \X {2}

\* CopiableValueLruCache::Clear(key_filter) with the filter block.fname == fname:
\* Delete for every key of lru_list that passes the filter.
RECURSIVE ClearKeys(_, _)
ClearKeys(c, keys_to_delete) ==
    IF keys_to_delete = <<>> THEN c
    ELSE ClearKeys(SharedDelete(c, Head(keys_to_delete)), Tail(keys_to_delete))

InMemClearCache(c, fname) ==
    ClearKeys(c, SelectSeq(c.lru_list, LAMBDA key : key[1] = fname))

ClearInit ==
    /\ now = 0
    /\ cache_kind = "copiable"
    /\ \E m \in MemCapacities :
          cache = [lru_list |-> <<>>, entry_map |-> [k \in InMemCacheBlocks |-> <<>>],
                   cur_entries_num |-> 0, max_entries |-> m, timeout_millisec |-> 0]
    /\ ongoing_creation = [k \in Keys |-> NoToken]
    /\ goc = [t \in Threads |-> IdleCall]
    /\ factory_calls = [k \in Keys |-> 0]
    /\ removed = [k \in Keys |-> FALSE]
    /\ direct_put = [k \in Keys |-> FALSE]
    /\ last_ret = [value |-> Null, age |-> 0]
    /\ evictions = FALSE
    /\ crashed = FALSE
    /\ reader_kind \in {"disk", "mem"}
    /\ block_size = 2
    /\ files = <<>>
    /\ reads = <<>>
    /\ inner_log = {}
    /\ reads_started = 0
    /\ FhIdle
    /\ GlobIdle
    /\ ExtIdle

clearIdleVars == <<now, cache_kind, ongoing_creation, goc, factory_calls, removed,
                   direct_put, last_ret, evictions, crashed, block_size, reads,
                   inner_log, reads_started, fhVars, globVars, extVars>>

\* A missed sub-request of a read of remote_file has published its block with
\* the active reader: MoveFile onto the cache file name, or cache->Put.
PublishBlock(remote_file, start_offset) ==
    /\ Len(cache.lru_list) < MaxListLen
    /\ IF reader_kind = "disk"
       THEN /\ files' = (LocalCacheFileName(remote_file, start_offset, block_size)
                            :> [content |-> InnerFileBytes(start_offset, block_size),
                                stale |-> FALSE]) @@ files
            /\ UNCHANGED cache
       ELSE /\ cache' = SharedPut(cache, <<remote_file, start_offset, block_size>>,
                                  InnerFileBytes(start_offset, block_size), now)
            /\ UNCHANGED files
    /\ UNCHANGED <<clearIdleVars, reader_kind>>

\* CacheReaderManager::SetCacheReader after the cache type was changed.
SwitchReader ==
    /\ reader_kind' = IF reader_kind = "disk" THEN "mem" ELSE "disk"
    /\ UNCHANGED <<clearIdleVars, files, cache>>

\* CacheReaderManager::ClearCache(fname): every reader that exists clears the
\* blocks of the file.
ClearCacheOfFile(fname) ==
    /\ files' = DiskClearCache(files, fname)
    /\ cache' = InMemClearCache(cache, fname)
    /\ UNCHANGED <<clearIdleVars, reader_kind>>

\* CacheReaderManager::ClearCache(): RemoveDirectory and CreateDirectory of the
\* cache directory, cache->Clear().
ClearCacheAll ==
    /\ files # <<>> \/ cache.lru_list # <<>>
    /\ files' = <<>>
    /\ cache' = SharedClear(cache)
    /\ UNCHANGED <<clearIdleVars, reader_kind>>

ClearNext ==
    \/ \E f \in RemoteFiles, off \in BlockOffsets : PublishBlock(f, off)
    \/ SwitchReader
    \/ \E f \in RemoteFiles : ClearCacheOfFile(f)
    \/ ClearCacheAll

SpecClear == ClearInit /\ [][ClearNext]_vars

\* ======================================================= file-handle cache
MaxHandles == 3
Users == {"u1", "u2", "u3"}
Paths == {"p1", "p2"}
FhCapacities == {1, 2, 3}

NoHandle == [inner |-> Null, path |-> "p1", from_cache |-> FALSE]

SeqRange(q) == {q[i] : i \in 1..Len(q)}

\* The cache SetFileHandleCache creates.
NewFhCache(m, to) ==
    [lru_list |-> <<>>, entry_map |-> [k \in Paths |-> <<>>],
     cur_entries_num |-> 0, max_entries |-> m, timeout_millisec |-> to]

NoDrops == [p \in Paths |-> Null]

FhInit ==
    /\ now = 0
    /\ cache_kind = "multi"
    /\ \E m \in FhCapacities, to \in Timeouts : cache = NewFhCache(m, to)
    /\ ongoing_creation = [k \in Keys |-> NoToken]
    /\ goc = [t \in Threads |-> IdleCall]
    /\ factory_calls = [k \in Keys |-> 0]
    /\ removed = [k \in Keys |-> FALSE]
    /\ direct_put = [k \in Keys |-> FALSE]
    /\ last_ret = [value |-> Null, age |-> 0]
    /\ evictions = FALSE
    /\ crashed = FALSE
    /\ ReaderIdle
    /\ fh_held = [u \in Users |-> NoHandle]
    /\ fh_closed = {}
    /\ fh_opened = 0
    /\ fh_enabled = TRUE
    /\ fh_reclosed = {}
    /\ fh_last_drop = NoDrops
    /\ GlobIdle
    /\ ExtIdle

fhIdleVars == <<now, cache_kind, ongoing_creation, goc, factory_calls, removed,
                direct_put, last_ret, evictions>>

\* FileHandle::Close on each handle of a set: a handle closed before is closed again.
CloseHandles(handles) ==
    /\ fh_closed' = fh_closed \cup handles
    /\ fh_reclosed' = fh_reclosed \cup (handles \cap fh_closed)

\* The key the facade handle's destructor stores the inner handle under:
\* the path and flags GetOrCreateFileHandleForRead looks up.
ReleaseKeyOther(path) == CHOOSE q \in Paths : q # path

ReleaseKey(path) == path

\* The inner filesystem opens a new handle.
OpenInner(u, path) ==
    /\ fh_opened < MaxHandles
    /\ fh_opened' = fh_opened + 1
    /\ fh_held' = [fh_held EXCEPT ![u] =
           [inner |-> fh_opened + 1, path |-> path, from_cache |-> FALSE]]

\* CacheFileSystem::GetOrCreateFileHandleForRead: without a cache, open a new
\* inner handle; else check a handle out of the cache, closing the expired ones
\* it swept, or open a new inner handle. The invalid read inside GetAndPop ends
\* the process before the swept handles are closed.
FhOpen(u, path) ==
    /\ ~crashed
    /\ fh_held[u].inner = Null
    /\ IF ~fh_enabled
       THEN /\ OpenInner(u, path)
            /\ UNCHANGED <<cache, crashed, fh_closed, fh_reclosed, fh_last_drop>>
       ELSE LET r == MultiGetAndPop(cache, path, now)
            IN IF r.ub
               THEN /\ crashed' = TRUE
                    /\ UNCHANGED <<cache, fhVars>>
               ELSE /\ crashed' = FALSE
                    /\ cache' = r.cache
                    /\ CloseHandles(SeqRange(r.evicted_items))
                    /\ fh_last_drop' = [fh_last_drop EXCEPT ![path] = Null]
                    /\ IF r.target_item # Null
                       THEN /\ fh_held' = [fh_held EXCEPT ![u] =
                                   [inner |-> r.target_item, path |-> path,
                                    from_cache |-> TRUE]]
                            /\ UNCHANGED fh_opened
                       ELSE OpenInner(u, path)
    /\ UNCHANGED <<fhIdleVars, readerVars, extVars, fh_enabled, globVars>>

\* CacheFileSystemHandle::~CacheFileSystemHandle: without a cache the inner
\* handle is destroyed with the facade handle, which closes it; else it goes
\* back to the cache and the handle the Put evicted is closed.
FhRelease(u) ==
    /\ ~crashed
    /\ fh_held[u].inner # Null
    /\ IF ~fh_enabled
       THEN /\ CloseHandles({fh_held[u].inner})
            /\ UNCHANGED <<cache, fh_last_drop>>
       ELSE LET r == MultiPut(cache, ReleaseKey(fh_held[u].path), fh_held[u].inner, now)
            IN /\ cache' = r.cache
               /\ CloseHandles(IF r.evicted # Null THEN {r.evicted} ELSE {})
               /\ fh_last_drop' = [p \in Paths |->
                      IF p = fh_held[u].path THEN fh_held[u].inner
                      ELSE IF fh_last_drop[p] = r.evicted THEN Null
                      ELSE fh_last_drop[p]]
    /\ fh_held' = [fh_held EXCEPT ![u] = NoHandle]
    /\ UNCHANGED <<fhIdleVars, crashed, fh_opened, fh_enabled, readerVars, extVars, globVars>>

\* CacheFileSystem::ClearFileHandleCache, reached from SetFileHandleCache when
\* the cache is switched off and from ~CacheFileSystem: every cached handle is
\* closed and the cache is destroyed.
ClearFileHandleCache ==
    /\ ~crashed
    /\ fh_enabled
    /\ LET r == MultiClearAndGetValues(cache)
       IN /\ cache' = NewFhCache(cache.max_entries, cache.timeout_millisec)
          /\ CloseHandles(r.values)
    /\ fh_enabled' = FALSE
    /\ fh_last_drop' = NoDrops
    /\ UNCHANGED <<fhIdleVars, crashed, fh_opened, fh_held, readerVars, extVars, globVars>>

\* CacheFileSystem::SetFileHandleCache with the cache switched on and no cache
\* yet: a new, empty cache.
SetFileHandleCache ==
    /\ ~crashed
    /\ ~fh_enabled
    /\ cache' = NewFhCache(cache.max_entries, cache.timeout_millisec)
    /\ fh_enabled' = TRUE
    /\ UNCHANGED <<fhIdleVars, crashed, fh_opened, fh_held, fh_closed, fh_reclosed,
                   fh_last_drop, readerVars, extVars, globVars>>

FhNext ==
    \/ Tick
    \/ \E u \in Users, path \in Paths : FhOpen(u, path)
    \/ \E u \in Users : FhRelease(u)
    \/ ClearFileHandleCache
    \/ SetFileHandleCache

SpecFh == FhInit /\ [][FhNext]_vars

\* The facade is torn down in the end: ~CacheFileSystem runs
\* ClearFileHandleCache on the cache it has then.
SpecFhLive == FhInit /\ [][FhNext]_vars /\ WF_vars(ClearFileHandleCache)

\* ====================================================================== claims

\* Sub-requests that missed and have not published yet.
Missed == {"fetch", "temp_open", "temp_written", "mem_put"}

\* Sub-requests that fetched their block and have not published yet.
Fetched == {"temp_open", "temp_written", "mem_put"}

InFlight(r, i, pcs) ==
    /\ reads[r].pc = "running"
    /\ i \in DOMAIN reads[r].chunks
    /\ reads[r].chunks[i].pc \in pcs

\* C1: a read that returned with no failed sub-request left in the caller's
\* buffer exactly the inner file's bytes [location, location + nr_bytes),
\* whether its blocks were missed or hit and whatever reads came before.
C1_ReadRoundTrip ==
    \A r \in Clients :
        (reads[r].pc = "returned" /\ ~reads[r].failed) =>
            reads[r].buffer = InnerFileBytes(reads[r].location, reads[r].nr_bytes)

\* One client read through misses, the other read the whole file from the
\* cache alone, and both returned.
C1_Witness ==
    \E r1, r2 \in Clients :
        /\ reads[r1].pc = "returned" /\ ~reads[r1].failed /\ reads[r1].inner_count > 0
        /\ reads[r2].pc = "returned" /\ ~reads[r2].failed /\ reads[r2].inner_count = 0
        /\ reads[r2].nr_bytes = FileSize

C4_FailureSurfaces ==
    \A r \in Clients : reads[r].pc = "returned" => ~reads[r].failed

\* C5: a file under a cache file name holds exactly the bytes of its block.
C5_CanonicalComplete ==
    \A name \in DOMAIN files :
        IsCacheFile(name) => files[name].content = InnerFileBytes(name[2], name[3])

\* A block is published while another publisher of the same block has only
\* created its still empty temporary file.
C5_Witness ==
    \E r \in Clients : \E i \in 1..MaxChunks :
        /\ InFlight(r, i, {"temp_open"})
        /\ ChunkAt(r, i).chunk_size > 0
        /\ GetLocalCacheFile(ChunkAt(r, i).aligned_start_offset, ChunkAt(r, i).chunk_size)
              \in DOMAIN files

\* Where an inner handle is: slots of the cache holding it, users holding it,
\* and whether it is closed.
CacheSlots(h) ==
    Cardinality({ki \in Paths \X (1..MaxHandles) :
                    /\ ki[2] <= Len(cache.entry_map[ki[1]])
                    /\ cache.entry_map[ki[1]][ki[2]].value = h})

Holders(h) == Cardinality({u \in Users : fh_held[u].inner = h})

\* C8: every inner handle the facade opened is in exactly one place: one slot
\* of the file-handle cache, or one facade handle of a user, or closed; so no
\* two live facade handles wrap the same inner handle.
C8_HandleExclusive ==
    \A h \in 1..fh_opened :
        CacheSlots(h) + Holders(h) + (IF h \in fh_closed THEN 1 ELSE 0) = 1

\* One user got its handle out of the cache while another user holds a handle
\* of the same path and a third handle waits in the cache.
C8_Witness ==
    \E u1, u2 \in Users :
        /\ u1 # u2
        /\ fh_held[u1].from_cache
        /\ fh_held[u2].inner # Null
        /\ fh_held[u1].path = fh_held[u2].path
        /\ StoredEntries(cache) > 0


\* C9 (as claimed): a read whose blocks were all cached when it began, with no
\* entry leaving the cache meanwhile and no failing sub-request, issues no inner
\* read and creates no cache entry.
C9_CachedReadIsFree ==
    \A r \in Clients :
        (reads[r].pc = "returned" /\ ~reads[r].failed /\ reads[r].precached
            /\ reads[r].quiet) =>
            (reads[r].inner_count = 0 /\ reads[r].created = 0)

\* C10: every inner read starts at a multiple of block_size and asks for
\* min(block_size, file_size - offset) bytes: block_size, or what is left of
\* the file at its end.
C10_AlignedInnerReads ==
    \A e \in inner_log :
        /\ e[1] % block_size = 0
        /\ e[2] = Min(block_size, FileSize - e[1])

\* The inner filesystem served a whole block and the shorter last block.
C10_Witness ==
    \E e1, e2 \in inner_log :
        /\ e1[2] = block_size
        /\ e2[2] > 0 /\ e2[2] < block_size


\* C3: GetOrCreate(key, factory) invokes the factory at most once per key while
\* the value stays cached or is being created, and every caller, concurrent or
\* later, receives the value of that one invocation (values are numbered by
\* factory invocation, so that value is 1).
C3_GetOrCreateOnce ==
    \A k \in Keys : ~removed[k] =>
        /\ factory_calls[k] <= 1
        /\ \A t \in Threads :
              (goc[t].ret_how # "none" /\ goc[t].ret_key = k) =>
                  (factory_calls[k] = 1 /\ goc[t].ret_val = 1)

\* A waiter that joined the creation and a later caller that hit the cache have
\* both returned for a key that was created once and never left the cache.
C3_Witness ==
    \E k \in Keys, t1, t2 \in Threads :
        /\ ~removed[k] /\ factory_calls[k] = 1
        /\ goc[t1].ret_how = "waited" /\ goc[t1].ret_key = k
        /\ goc[t2].ret_how = "hit" /\ goc[t2].ret_key = k

\* C6: a cache with max_entries > 0 never stores more than max_entries entries
\* after an operation completes; with max_entries = 0 nothing is evicted for
\* capacity.
C6_CapacityBound ==
    /\ cache.max_entries > 0 => StoredEntries(cache) <= cache.max_entries
    /\ cache.max_entries = 0 => ~evictions

\* A full bounded cache after a Put that evicted the least recently used entry.
C6_Witness ==
    /\ cache.max_entries > 0
    /\ StoredEntries(cache) = cache.max_entries
    /\ evictions

\* C7 (as claimed): with timeout T > 0 no lookup returns a value that was
\* inserted more than T before the lookup began.
C7_NoStaleLookup ==
    cache.timeout_millisec > 0 => last_ret.age <= cache.timeout_millisec

\* Position of the first node of a key in the LRU list (0: none). Put adds the
\* key's node at the front and Get splices it to the front, so the keys are in
\* order of their latest use by their first nodes.
FirstNode(lru_list, key) ==
    IF \E i \in 1..Len(lru_list) : lru_list[i] = key
    THEN CHOOSE i \in 1..Len(lru_list) :
            lru_list[i] = key /\ \A j \in 1..(i - 1) : lru_list[j] # key
    ELSE 0

\* C11 (as claimed): a Put on a key that is present, in a cache of capacity
\* >= 1, leaves exactly one entry of that key holding the new value and evicts
\* no key, neither the written one nor another.
C11_PutReplaces ==
    [][\A k \in Keys :
          ((LruPut(k) \/ ExclPutOp(k)) /\ Found(cache, k) /\ cache.max_entries >= 1) =>
              /\ ~crashed'
              /\ Len(cache'.entry_map[k]) = 1
              /\ cache'.entry_map[k][1].value = PutVal
              /\ Dropped(cache, cache') = {}]_vars

\* C12 (as claimed): the entry a Put evicts is the least recently used one:
\* every key that stays stored has been written or read more recently than
\* the evicted key, so a Put never evicts the key it has just written while
\* another key stays.
C12_EvictsLeastRecent ==
    [][\A k \in Keys :
          LruPut(k) =>
              LET c2 == SharedPutNoEvict(cache, k, PutVal, now)
              IN \A d \in Keys :
                    (Found(c2, d) /\ ~Found(cache', d)) =>
                        \A o \in Keys :
                            (o # d /\ Found(cache', o)) =>
                                FirstNode(c2.lru_list, o) < FirstNode(c2.lru_list, d)]_vars

\* ------------------------------------------------- on-disk publication claims
CacheFileNames(fs) == {name \in DOMAIN fs : IsCacheFile(name)}

\* The cache file of the i-th block of the latest read of a client.
CacheFileOf(r, i) ==
    GetLocalCacheFile(ChunkAt(r, i).aligned_start_offset, ChunkAt(r, i).chunk_size)

BlocksOf(r) == 1..SubrequestCount(reads[r].location, reads[r].nr_bytes, block_size)

\* Every read so far ended, none with an exception or a skipped publication.
AllReadsCompletedCleanly ==
    /\ reader_kind = "disk"
    /\ \A r \in Clients : reads[r].pc \in {"idle", "returned"} /\ reads[r].clean

ChunkStep(r, i, from, to) ==
    /\ InFlight(r, i, from)
    /\ reads'[r].pc = "running"
    /\ reads'[r].chunks[i].pc = to

\* The bytes of the caller's buffer a chunk is responsible for are the file's.
ChunkCopied(rd, ch) ==
    \A j \in 1..Len(rd.buffer) :
        (j > ch.buf_start /\ j <= ch.buf_start + ch.bytes_to_copy) =>
            rd.buffer[j] = rd.location + j

C18_ReadBounds ==
    [][\A r \in Clients :
          /\ (reads[r].pc # "running" /\ reads'[r] # reads[r]) =>
                IF reads'[r].location >= FileSize
                THEN /\ reads'[r].pc = "returned"
                     /\ reads'[r].nr_bytes = 0
                     /\ reads'[r].buffer = <<>>
                     /\ reads'[r].chunks = <<>>
                     /\ UNCHANGED <<cache, files, inner_log>>
                ELSE /\ reads'[r].pc = "running"
                     /\ reads'[r].nr_bytes =
                           Min(reads'[r].requested, FileSize - reads'[r].location)
                     /\ Len(reads'[r].buffer) = reads'[r].nr_bytes
                     /\ Len(reads'[r].chunks) >= 1
          /\ (reads'[r].pc = "returned" /\ ~reads'[r].failed
                /\ reads'[r].location < FileSize) =>
                reads'[r].buffer =
                    InnerFileBytes(reads'[r].location,
                                   Min(reads'[r].requested, FileSize - reads'[r].location))]_vars

\* One client's read at the end of the file returned nothing, and the other's
\* read across the end of the file returned the file's tail.
C18_Witness ==
    \E r1, r2 \in Clients :
        /\ reads[r1].pc = "returned" /\ reads[r1].location >= FileSize
        /\ reads[r1].requested > 0 /\ reads[r1].nr_bytes = 0
        /\ reads[r2].pc = "returned" /\ ~reads[r2].failed
        /\ reads[r2].location < FileSize
        /\ reads[r2].requested > FileSize - reads[r2].location
        /\ Len(reads[r2].buffer) = FileSize - reads[r2].location

\* C20: when Write, Sync or MoveFile of CacheLocal throws, the set of cache
\* files and their contents stay as they were (no file appears under the cache
\* file name), the bytes already copied to the caller stay, the read is not
\* marked failed, and the read returns with the right bytes.
C20_PublicationFailureNonFatal ==
    [][\A r \in Clients :
          /\ \A i \in 1..MaxChunks :
                (reader_kind = "disk"
                    /\ ChunkStep(r, i, {"temp_open", "temp_written"}, "failed")) =>
                    /\ CacheFileNames(files') = CacheFileNames(files)
                    /\ \A name \in CacheFileNames(files) : files'[name] = files[name]
                    /\ reads'[r].buffer = reads[r].buffer
                    /\ ChunkCopied(reads'[r], ChunkAt(r, i))
                    /\ reads'[r].failed = reads[r].failed
          /\ (reads'[r].pc = "returned" /\ reads'[r].pub_failed /\ ~reads'[r].failed) =>
                reads'[r].buffer = InnerFileBytes(reads'[r].location, reads'[r].nr_bytes)]_vars

\* A read whose publication threw has returned the right bytes, its temporary
\* file is left behind, and the other client's read of the same range has
\* published every block.
C20_Witness ==
    /\ reader_kind = "disk"
    /\ OrphanTemps(files) # {}
    /\ \E r1, r2 \in Clients :
          /\ r1 # r2
          /\ reads[r1].pc = "returned" /\ reads[r1].pub_failed /\ ~reads[r1].failed
          /\ reads[r1].nr_bytes > 0
          /\ reads[r1].buffer = InnerFileBytes(reads[r1].location, reads[r1].nr_bytes)
          /\ reads[r2].pc = "returned"
          /\ reads[r1].location = reads[r2].location
          /\ reads[r1].nr_bytes = reads[r2].nr_bytes
          /\ reads[r2].created = Cardinality(BlocksOf(r2))
          /\ \A i \in BlocksOf(r1) : CacheFileOf(r1, i) \in DOMAIN files

\* The handles under a key that a GetAndPop of the key at time t finds expired.
ExpiredHandles(c, key, t) ==
    {c.entry_map[key][i].value :
        i \in {j \in 1..Len(c.entry_map[key]) : Expired(c, c.entry_map[key][j], t)}}

\* C15: every inner handle that leaves the file-handle cache other than into a
\* user's hands (capacity eviction, TTL sweep, clearing, disablement,
\* destruction) is closed exactly once, and no handle that sits in the cache
\* or is held by a user is closed.
C15_ClosedExactlyOnce ==
    [][/\ \A u \in Users, p \in Paths :
             (FhOpen(u, p) /\ fh_enabled) => ExpiredHandles(cache, p, now) \subseteq fh_closed'
       /\ \A h \in 1..fh_opened' :
             /\ h \notin fh_reclosed'
             /\ (CacheSlots(h)' + Holders(h)' > 0) => h \notin fh_closed'
             /\ (CacheSlots(h) > 0 /\ CacheSlots(h)' + Holders(h)' = 0) => h \in fh_closed']_vars

\* Positions of the values under a key that are not expired at time t.
FreshAt(c, key, t) ==
    {j \in 1..Len(c.entry_map[key]) : ~Expired(c, c.entry_map[key][j], t)}

FirstFresh(c, key, t) ==
    CHOOSE j \in FreshAt(c, key, t) : \A j2 \in FreshAt(c, key, t) : j <= j2

\* C16 as stated: the read open of a path that follows the drop of a handle
\* of that path returns the handle dropped, with no inner open, unless the
\* handle was evicted, expired or cleared in between.
C16_ReopenSameHandle ==
    [][\A u \in Users, p \in Paths :
          (/\ FhOpen(u, p)
           /\ fh_enabled
           /\ fh_last_drop[p] # Null
           /\ fh_last_drop[p] \notin ExpiredHandles(cache, p, now)) =>
              /\ fh_held'[u].inner = fh_last_drop[p]
              /\ fh_opened' = fh_opened]_vars

\* C16: with the file-handle cache on, a dropped handle becomes the newest
\* value cached under its path, and a read open of a path that has a
\* non-expired handle cached returns the oldest such handle without an inner
\* open; that is the handle dropped last when it is the only one under the path.
C16_ReopenReusesCached ==
    [][/\ \A u \in Users :
             (FhRelease(u) /\ fh_enabled) =>
                 LET q == cache'.entry_map[fh_held[u].path]
                 IN Len(q) > 0 /\ q[Len(q)].value = fh_held[u].inner
       /\ \A u \in Users, p \in Paths :
             (FhOpen(u, p) /\ fh_enabled /\ FreshAt(cache, p, now) # {}) =>
                 /\ ~crashed'
                 /\ fh_held'[u].inner = cache.entry_map[p][FirstFresh(cache, p, now)].value
                 /\ fh_held'[u].from_cache
                 /\ fh_opened' = fh_opened
                 /\ (Len(cache.entry_map[p]) = 1 /\ fh_last_drop[p] # Null) =>
                        fh_held'[u].inner = fh_last_drop[p]]_vars

\* A user was handed a cached handle while another handle of the same path
\* stayed in the cache.
C16_Witness ==
    \E u \in Users :
        /\ fh_held[u].from_cache
        /\ fh_held[u].inner # Null
        /\ Found(cache, fh_held[u].path)
        /\ fh_enabled

\* The values under a key, oldest first.
ValuesOf(c, key) == [i \in 1..Len(c.entry_map[key]) |-> c.entry_map[key][i].value]

\* C17: the values under one key of the multi-value cache leave in insertion
\* order. A Put appends its value behind the values of the key; a GetAndPop of
\* a key with a non-expired value returns the first non-expired value, removes
\* it and the expired ones before it, keeps the values behind it in their
\* order and keeps every value of the other keys.
C17_InsertionOrder ==
    [][/\ \A u \in Users :
             (FhRelease(u) /\ fh_enabled) =>
                 LET p == fh_held[u].path
                 IN \/ ValuesOf(cache', p) = Append(ValuesOf(cache, p), fh_held[u].inner)
                    \/ /\ Found(cache, p)
                       /\ ValuesOf(cache', p) = Append(Tail(ValuesOf(cache, p)), fh_held[u].inner)
       /\ \A u \in Users, p \in Paths :
             (FhOpen(u, p) /\ fh_enabled /\ FreshAt(cache, p, now) # {}) =>
                 LET j == FirstFresh(cache, p, now)
                     before == ValuesOf(cache, p)
                 IN /\ ~crashed'
                    /\ \A i \in 1..(j - 1) : before[i] \in ExpiredHandles(cache, p, now)
                    /\ fh_held'[u].inner = before[j]
                    /\ ValuesOf(cache', p) = SubSeq(before, j + 1, Len(before))
                    /\ \A k \in Paths \ {p} : ValuesOf(cache', k) = ValuesOf(cache, k)]_vars

\* A user took the oldest of two handles of a path while the other path has a
\* handle in the cache too.
C17_Witness ==
    \E u \in Users :
        /\ fh_held[u].from_cache
        /\ Found(cache, fh_held[u].path)
        /\ \A i \in 1..Len(cache.entry_map[fh_held[u].path]) :
               cache.entry_map[fh_held[u].path][i].value > fh_held[u].inner
        /\ \E k \in Paths \ {fh_held[u].path} : Found(cache, k)

\* C19: a Glob of a path without metacharacters calls the inner glob and
\* leaves the glob cache and its creation tokens as they were. With the glob
\* cache on, a Glob of a pattern with metacharacters goes through the cache: it
\* makes no inner call of its own, it returns the cached value when the
\* pattern has a non-expired entry, the inner glob runs for a pattern only
\* while the pattern has no entry, its result is stored, and a pattern whose
\* entry never left the cache has had one inner glob call.
C19_GlobCaching ==
    [][/\ \A t \in Threads :
             Glob(t, PlainPath) =>
                 /\ uncached_globs' = uncached_globs + 1
                 /\ cache' = cache
                 /\ ongoing_creation' = ongoing_creation
       /\ \A t \in Threads, k \in Keys :
             (Glob(t, k) /\ glob_enabled) =>
                 /\ uncached_globs' = uncached_globs
                 /\ factory_calls' = factory_calls
                 /\ (Found(cache, k) /\ ~Expired(cache, cache.entry_map[k][1], now)) =>
                        /\ goc'[t].pc = "idle"
                        /\ goc'[t].ret_how = "hit"
                        /\ goc'[t].ret_val = cache.entry_map[k][1].value
       /\ \A t \in Threads : GocFactory(t) => ~Found(cache, goc[t].key)
       /\ \A t \in Threads : GocPublish(t) => Found(cache', goc[t].key)
       /\ \A k \in Keys : ~removed'[k] => factory_calls'[k] <= 1]_vars

\* Both threads have returned from a Glob of one pattern, one having run the
\* inner glob and one served from the cache, and a path without
\* metacharacters was globbed as well.
C19_Witness ==
    \E k \in Keys, t1, t2 \in Threads :
        /\ glob_enabled /\ ~removed[k] /\ factory_calls[k] = 1
        /\ goc[t1].ret_how = "created" /\ goc[t1].ret_key = k
        /\ goc[t2].ret_how = "hit" /\ goc[t2].ret_key = k
        /\ goc[t1].pc = "idle" /\ goc[t2].pc = "idle"
        /\ uncached_globs > 0
        /\ Found(cache, k)

\* C21: a sub-request whose inner read failed (it called the inner
\* filesystem and nothing reached the caller's buffer) ends there: it creates
\* no file, stores no buffer, and leaves its block as cached or uncached as
\* it was; a failed sub-request takes no further step.
C21_FailedReadPublishesNothing ==
    [][\A r \in Clients : \A i \in 1..MaxChunks :
          /\ (/\ Fetch(r, i)
              /\ ChunkAt(r, i).bytes_to_copy > 0
              /\ reads'[r].buffer = reads[r].buffer) =>
                 /\ reads'[r].chunks[i].pc = "failed"
                 /\ reads'[r].failed
                 /\ files' = files
                 /\ cache' = cache
                 /\ BlockCached(ChunkAt(r, i))' = BlockCached(ChunkAt(r, i))
          /\ (InFlight(r, i, {"failed"}) /\ reads'[r].pc = "running") =>
                 reads'[r].chunks[i].pc = "failed"]_vars

\* A read failed on its inner reads and published nothing, and the other
\* client's later read of the same range, at its first block, misses and is
\* about to read the inner file again.
C21_Witness ==
    \E r1, r2 \in Clients :
        /\ r1 # r2
        /\ reads[r1].pc = "returned" /\ reads[r1].failed
        /\ reads[r1].created = 0 /\ reads[r1].inner_count > 0
        /\ reads[r2].location = reads[r1].location
        /\ reads[r2].nr_bytes = reads[r1].nr_bytes
        /\ InFlight(r2, 1, {"fetch"})
        /\ ~BlockCached(ChunkAt(r2, 1))
        /\ BlockKeyOf(ChunkAt(r2, 1)) \in inner_log

\* The cached blocks of a remote file: its cache files and its in-memory keys.
CachedBlocksOf(fs, c, f) ==
    {key \in InMemCacheBlocks :
        /\ key[1] = f
        /\ \/ LocalCacheFileName(f, key[2], key[3]) \in DOMAIN fs
           \/ Found(c, key)}

\* C22: clear_cache(fname) leaves no cache file and no in-memory block of
\* fname and keeps every cached block of the other files.
C22_ClearCacheOfFile ==
    [][\A f \in RemoteFiles :
          ClearCacheOfFile(f) =>
              /\ CachedBlocksOf(files', cache', f) = {}
              /\ \A g \in RemoteFiles \ {f} :
                    CachedBlocksOf(files', cache', g) = CachedBlocksOf(files, cache, g)]_vars

\* C23: the bytes stored under a block key of the in-memory cache never
\* change while the key stays in the cache, whatever is put or read, and a hit
\* (a Get that returns a non-empty buffer) copies to the caller exactly the
\* stored bytes of its range.
C23_PublishedBufferImmutable ==
    [][/\ \A key \in BlockKeys(block_size) :
             (reader_kind = "mem" /\ Found(cache, key) /\ Found(cache', key)) =>
                 cache'.entry_map[key][1].value = cache.entry_map[key][1].value
       /\ \A r \in Clients : \A i \in 1..MaxChunks :
             (/\ MemGet(r, i)
              /\ Found(cache, BlockKeyOf(ChunkAt(r, i)))
              /\ Len(cache.entry_map[BlockKeyOf(ChunkAt(r, i))][1].value) > 0) =>
                 LET ch == ChunkAt(r, i)
                     published == cache.entry_map[BlockKeyOf(ch)][1].value
                 IN /\ reads'[r].chunks[i].pc = "done"
                    /\ \A j \in 1..Len(reads[r].buffer) :
                          reads'[r].buffer[j] =
                              IF j > ch.buf_start /\ j <= ch.buf_start + ch.bytes_to_copy
                              THEN published[ch.delta_offset + (j - ch.buf_start)]
                              ELSE reads[r].buffer[j]]_vars

\* Both clients have read the same range from the in-memory reader: one
\* fetched and published every block, the other was served from the cache only.
C23_Witness ==
    /\ reader_kind = "mem"
    /\ \E r1, r2 \in Clients :
          /\ r1 # r2
          /\ reads[r1].pc = "returned" /\ reads[r2].pc = "returned"
          /\ reads[r1].nr_bytes > 0
          /\ reads[r1].location = reads[r2].location
          /\ reads[r1].nr_bytes = reads[r2].nr_bytes
          /\ reads[r1].created > 0
          /\ reads[r2].inner_count = 0 /\ ~reads[r2].failed
          /\ reads[r2].buffer = reads[r1].buffer
          /\ reads[r2].buffer = InnerFileBytes(reads[r2].location, reads[r2].nr_bytes)

\* C24: ReadAndCache returns to its caller only after every sub-request it
\* dispatched has finished executing: once Wait has returned, no pushed job of
\* the pool is queued or running, and every sub-request of the read has ended
\* (normally or with an exception).
C24_WaitReturnsAfterAllJobs ==
    pool.pc \in {"returned", "joining", "destroyed"} =>
        /\ pool.jobs = <<>>
        /\ pool.pushed = pool.io_request_count
        /\ \A j \in 1..pool.io_request_count : pool.job_state[j] \in {"done", "threw"}

\* Wait has returned for a read of three sub-requests run by two workers, one
\* of which threw.
C24_Witness ==
    /\ pool.pc = "returned"
    /\ ~pool.stopped
    /\ pool.io_request_count = 3
    /\ pool.thread_num = 2
    /\ \E j \in 1..3 : pool.job_state[j] = "threw"

\* C25: with max_fanout > 0 never more than max_fanout sub-requests of one
\* logical read execute at once; with max_fanout = 0 the pool has one worker
\* per sub-request; the pool of a logical read has at least one worker.
C25_FanoutBound ==
    pool.pc # "none" =>
        /\ pool.thread_num >= 1
        /\ pool.max_subrequest_count > 0 =>
               Cardinality(RunningJobs(pool)) <= pool.max_subrequest_count
        /\ pool.max_subrequest_count = 0 => pool.thread_num = pool.io_request_count

\* Two of three sub-requests run at once under a limit of two while the third
\* waits in the queue.
C25_Witness ==
    /\ pool.max_subrequest_count = 2
    /\ pool.io_request_count = 3
    /\ Cardinality(RunningJobs(pool)) = 2
    /\ pool.jobs # <<>>

\* C26: a configuration load whose cache-type or profile-type value is not a
\* recognised name leaves the current cache type / profile type unchanged, a
\* block-size value of 0 leaves the block size unchanged, and the effective
\* block size is never 0 after any sequence of loads and resets.
C26_InvalidSettingsIgnored ==
    [][/\ \A s \in Settings :
             (LoadConfig("f1", s) /\ s.opener) =>
                /\ s.cache_httpfs_type \notin ALL_CACHE_TYPES =>
                       config'.g_cache_type = config.g_cache_type
                /\ s.cache_httpfs_profile_type \notin ALL_PROFILE_TYPES =>
                       config'.g_profile_type = config.g_profile_type
                /\ s.cache_httpfs_cache_block_size = 0 =>
                       config'.g_cache_block_size = config.g_cache_block_size
       /\ config.g_cache_block_size > 0
       /\ config'.g_cache_block_size > 0
       /\ config'.g_cache_type \in ALL_CACHE_TYPES
       /\ config'.g_profile_type \in ALL_PROFILE_TYPES]_vars

\* The latest load carried an unrecognised cache type, an unrecognised profile
\* type and block size 0, and the values of an earlier load are in force.
C26_Witness ==
    /\ config_seen = "invalid_load"
    /\ config.g_cache_type = IN_MEM_CACHE_TYPE
    /\ config.g_profile_type = TEMP_PROFILE_TYPE
    /\ config.g_cache_block_size = 2

\* C27: for every profile type configuration accepts (noop, temp, duckdb),
\* opening a file installs a non-null profile collector of that type on the
\* facade and hands it to the active cache reader, and SetProfileCollector
\* never reaches its 'unreachable' assertion.
C27_CollectorOfConfiguredType ==
    [][/\ SetProfileCollector("f1") =>
              config.g_profile_type \in {NOOP_PROFILE_TYPE, TEMP_PROFILE_TYPE}
       /\ HandOverCollector("f1") =>
              /\ ~crashed'
              /\ facades'["f1"].profile_collector = config.g_profile_type
              /\ manager'.reader_collector = config.g_profile_type]_vars

\* C28: after each OpenFile the active cache reader is the reader of the
\* configured cache type; a reader of a type is created at most once per
\* process, also when several facades open files concurrently, and the same
\* instance is reused whenever the type is selected again.
C28_OneReaderPerType ==
    [][/\ \A t \in ALL_CACHE_TYPES : manager'.created[t] <= 1
       /\ \A f \in Facades :
              (HandOverCollector(f) /\ ~crashed') =>
                 /\ manager'.internal_cache_reader.type = config'.g_cache_type
                 /\ manager'.internal_cache_reader.instance = 1
                 /\ manager'.readers[config'.g_cache_type] = 1]_vars

\* C30: once a configuration load has set SIGPIPE-ignore, the flag stays true:
\* no later load with the option false and no ResetGlobalConfig clears it.
C30_SigpipeOneWay ==
    [][config.g_ignore_sigpipe => config'.g_ignore_sigpipe]_vars

\* ResetGlobalConfig has just run with the flag set, and the flag is set.
C30_Witness ==
    /\ config_seen = "reset_after_sigpipe"
    /\ config.g_ignore_sigpipe
    /\ config.g_cache_type = DefaultConfig.g_cache_type

\* C29: stale-file eviction deletes every file of the cache directory whose
\* modification time is at least the staleness threshold old and no file
\* modified more recently; a cache file touched by a cache hit within the
\* threshold is never removed by it.
C29_EvictsExactlyStale ==
    [][\A name \in CacheDirFiles :
          (EvictVisits(name) /\ name \in DOMAIN cache_dir.mtime) =>
             /\ (name \notin DOMAIN cache_dir'.mtime) <=>
                    (scan.now - cache_dir.mtime[name] >= CACHE_FILE_STALENESS_SECOND)
             /\ \A other \in DOMAIN cache_dir.mtime \ {name} :
                    /\ other \in DOMAIN cache_dir'.mtime
                    /\ cache_dir'.mtime[other] = cache_dir.mtime[other]]_vars

\* The bytes the chunks before the i-th copy to the caller's buffer.
RECURSIVE CopiedBefore(_, _)
CopiedBefore(chunks, i) ==
    IF i <= 1 THEN 0 ELSE CopiedBefore(chunks, i - 1) + chunks[i - 1].bytes_to_copy

\* C31: the planned sub-requests of a logical read write byte ranges of the
\* caller's buffer that are contiguous in block order, hence pairwise
\* disjoint, and that together cover exactly [0, requested_bytes); each
\* sub-request copies only bytes inside its own block: offset within the
\* block + bytes_to_copy <= chunk_size.
C31_DisjointContiguousCover ==
    /\ \A i \in 1..Len(plan.chunks) :
          LET ch == plan.chunks[i]
              delta_offset == ch.requested_start_offset - ch.aligned_start_offset
          IN /\ ch.requested_start_addr = CopiedBefore(plan.chunks, i)
             /\ ch.bytes_to_copy >= 0
             /\ ch.requested_start_addr + ch.bytes_to_copy <= plan.requested_bytes_to_read
             /\ delta_offset >= 0
             /\ delta_offset + ch.bytes_to_copy <= ch.chunk_size
             /\ ch.aligned_start_offset + delta_offset =
                   plan.location + ch.requested_start_addr
    /\ plan.pc = "planned" =>
          /\ Len(plan.chunks) = SubrequestCount(plan.location, plan.requested_bytes_to_read,
                                                plan.block_size)
          /\ CopiedBefore(plan.chunks, Len(plan.chunks) + 1) = plan.requested_bytes_to_read

\* A request that starts inside a block and ends inside the third block after
\* it has been planned.
C31_Witness ==
    /\ plan.pc = "planned"
    /\ Len(plan.chunks) = 3
    /\ plan.location > plan.aligned_start_offset
    /\ plan.chunks[3].bytes_to_copy \in 1..(plan.block_size - 1)

\* C32: the chunk size of a planned block depends only on the block offset,
\* the block size and the file size: block_size for every block but the
\* file's last, file_size - offset for the last, whether the block is the
\* sole, first, middle or last chunk of the request.
C32_ChunkSizeOfBlock ==
    \A i \in 1..Len(plan.chunks) :
       LET ch == plan.chunks[i]
       IN /\ ch.aligned_start_offset <= plan.file_size
          /\ ch.aligned_start_offset = plan.aligned_start_offset + (i - 1) * plan.block_size
          /\ ch.chunk_size = Min(plan.block_size, plan.file_size - ch.aligned_start_offset)

\* A request of three chunks whose last chunk is the short last block of the
\* file and copies less than that block.
C32_Witness ==
    /\ plan.pc = "planned"
    /\ Len(plan.chunks) = 3
    /\ plan.chunks[3].chunk_size \in 1..(plan.block_size - 1)
    /\ plan.chunks[3].bytes_to_copy < plan.chunks[3].chunk_size
    /\ plan.chunks[1].bytes_to_copy < plan.block_size

\* C36: every sub-request planned for a read of at least one byte fetches a
\* block that overlaps the requested range and copies at least one byte; no
\* block wholly outside the range, a zero-length block at the end of the file
\* included, is planned (and so fetched and cached).
C36_EveryChunkOverlapsRequest ==
    plan.requested_bytes_to_read >= 1 =>
       \A i \in 1..Len(plan.chunks) :
          LET ch == plan.chunks[i]
          IN /\ ch.bytes_to_copy >= 1
             /\ ch.chunk_size >= 1
             /\ ch.aligned_start_offset < plan.location + plan.requested_bytes_to_read
             /\ ch.aligned_start_offset + ch.chunk_size > plan.location

\* C33: after every Put, GetAndPop and ClearAndGetValues on the exclusive
\* multi-LRU the invariant that Verify checks holds: the entry count equals
\* the number of values stored across all deques and the length of the list.
C33_VerifyHolds == (cache_kind = "multi" /\ ~crashed) => Verify(cache)

\* The values under a key that GetAndPop is to evict at time t: the expired
\* ones before the first fresh one.
ExpiredPrefix(c, key, t) ==
    IF FreshAt(c, key, t) = {} THEN c.entry_map[key]
    ELSE SubSeq(c.entry_map[key], 1, FirstFresh(c, key, t) - 1)

\* C34: with a TTL, GetAndPop(k) on the exclusive multi-LRU removes and
\* returns as evicted exactly the expired values under k before the first
\* fresh one, returns that fresh value as the target (none when all are
\* expired), and reads, removes or alters no value under another key.
C34_SweepsOwnKeyOnly ==
    [][\A k \in Keys :
          (MultiGetAndPopOp(k) /\ cache.timeout_millisec > 0 /\ Found(cache, k)) =>
             LET r == MultiGetAndPop(cache, k, now)
                 gone == ExpiredPrefix(cache, k, now)
                 fresh == FreshAt(cache, k, now) # {}
             IN /\ ~crashed'
                /\ r.evicted_items = [i \in 1..Len(gone) |-> gone[i].value]
                /\ r.target_item = IF fresh
                                   THEN cache.entry_map[k][Len(gone) + 1].value
                                   ELSE Null
                /\ Len(cache'.entry_map[k]) =
                      Len(cache.entry_map[k]) - Len(gone) - (IF fresh THEN 1 ELSE 0)
                /\ \A j \in Keys \ {k} :
                      Len(cache'.entry_map[j]) = Len(cache.entry_map[j])]_vars

\* C35: every GetOrCreate call eventually returns provided the factory of its
\* producer returns: no waiter stays blocked on a creation token after the
\* producer has published, whatever value the factory returned and whatever
\* other GetOrCreate, Put, Delete and Clear calls are interleaved.
C35_EveryCallReturns == \A t \in Threads : (goc[t].pc # "idle") ~> (goc[t].pc = "idle")

\* C37: a read that runs beside stale-file eviction or clear_cache returns the
\* correct bytes or fails with an error: a read one of whose sub-requests
\* found its cache file present and lost it before opening it does not return
\* successfully with other bytes than the inner file's.
C37_LostCacheFileNeverWrongBytes ==
    \A r \in Clients :
        (reads[r].pc = "returned" /\ reads[r].lost_file) =>
            reads[r].buffer = InnerFileBytes(reads[r].location, reads[r].nr_bytes)

\* C38: whenever a cache reader's profile-collector pointer is dereferenced,
\* by a sub-request or by the cache-access-info query that walks all
\* initialised readers, it points to a live collector, also after a facade
\* replaced its collector, switched the cache type or was destroyed.
C38_CollectorAliveWhenDereferenced == manager.dereferenced \in {"none", "live"}

\* C40: every inner file handle opened for reading is eventually closed: when
\* its facade handle is dropped it is returned to the file-handle cache and
\* closed later on eviction, clear or teardown, or it is closed at the drop,
\* also when the cache was disabled or cleared while it was checked out.
\* A handle that a later open checks out of the cache is in use again; every
\* other handle is closed in the end.
C40_EveryHandleClosed ==
    \A h \in 1..MaxHandles : []<>(fh_opened >= h => (h \in fh_closed \/ Holders(h) > 0))

\* C39: every RecordOperationEnd(op, id) finds the entry its
\* RecordOperationStart(op, id) recorded, under any interleaving with other
\* operations and with Reset; no id is started twice, ended twice or ended
\* after its entry was dropped.
C39_EndFindsItsStart ==
    /\ \A c \in Callers : profile.calls[c].found # "missing"
    /\ \A c1, c2 \in Callers :
          (c1 # c2 /\ profile.calls[c1].pc = "started" /\ profile.calls[c2].pc = "started") =>
              profile.calls[c1].oper_id # profile.calls[c2].oper_id

====
